---- MODULE Spec2Model ----
(***************************************************************************)
(* A model of the inventory API: the keyed token-bucket rate limiter       *)
(* (utils/rate_limiter.go), the item service with its read-through cache   *)
(* (utils/item_service.go) and the cursor pagination of GetItems.          *)
(*                                                                         *)
(* Four specifications share the variables:                                *)
(*   SpecRL   - concurrent callers of RateLimiter.Allow;                   *)
(*   SpecSeq  - ItemService CRUD calls, one call at a time;                *)
(*   SpecConc - ItemService CRUD calls of concurrent callers, interleaved  *)
(*              at every store statement and cache operation;              *)
(*   SpecList - list traversals (GetItems) over a static item table.       *)
(***************************************************************************)
EXTENDS Integers, Sequences, FiniteSets, TLC

\* ------------------------------------------------------------------------
\* Bounds of the model
\* ------------------------------------------------------------------------
MaxBurst == 2
MaxRate == 2
MaxTime == 3
TicksPerSecond == 2

\* Item service: mutations (create, update, delete) per behaviour of calls
\* run one at a time; last tick
MaxMut == 2
MaxClock == 3

\* Listing: rows of the table, largest limit a caller asks for
MaxRows == 3
MaxLimit == 2

Procs == {"p1", "p2"}
Keys == {"10.0.0.1", "10.0.0.2"}

\* Three callers that call Allow on one key no caller has used before
Callers == {"p1", "p2", "p3"}
UnseenKey == "10.0.0.1"

\* Commits per behaviour of concurrent calls: the seeding and one for each
\* caller
ConcMaxMut == Cardinality(Procs) + 1

\* Allow calls per key that the limiter model records
MaxCalls == MaxBurst + 1

VARIABLES
    now,        \* wall clock, in ticks
    rate,       \* RateLimiter.rate (tokens per second)
    burst,      \* RateLimiter.burst
    limiters,   \* RateLimiter.limiters: key -> *rate.Limiter
    rlpc,       \* position of each caller inside RateLimiter.Allow
    rlkey,      \* the key a caller inside Allow holds the limiter of
    allowLog,   \* per key, the results of limiter.Allow() in the order they ran
    ticker,     \* the ticker and goroutine started by CleanupOldLimiters
    made,       \* per key, the number of rate.NewLimiter calls made for it
    allHeld,    \* whether the three Callers have held the bucket of one key at once
    store,      \* the items table: id -> row
    cache,      \* ItemService.cache: id -> entry
    pc,         \* position of each caller inside its ItemService call
    loc,        \* the locals of each caller's call in progress
    res,        \* what the call returning in this step returns
    ver,        \* number of statements committed that changed the table
    modVers,    \* per id, the commits that changed its row
    delVers,    \* the commits that were deletes
    done,       \* the commits whose call has returned
    createdLog, \* the successful CreateItem calls: returned id, request
    updatedLog, \* the successful UpdateItem calls: id, request
    listReq,    \* the GetItems call made last: its arguments
    page,       \* the response of that call
    visited,    \* the identifiers of the rows a traversal has returned, in order
    ctx,        \* the request being served: gin.Context, and the calls made for it
    seed,       \* the SeedDatabase call in progress: its locals and goroutines
    codec       \* the cursor codec call made last: its argument and result

rlVars == <<rate, burst, limiters, rlpc, rlkey, allowLog, ticker, made, allHeld>>
svcVars == <<store, cache, pc, loc, res, ver, modVers, delVers, done, createdLog, updatedLog>>
listVars == <<listReq, page, visited>>
httpVars == <<ctx>>
callVars == <<seed, codec>>
vars == <<now, rlVars, svcVars, listVars, httpVars, callVars>>

Min(a, b) == IF a <= b THEN a ELSE b

\* ------------------------------------------------------------------------
\* Keyed rate limiter (utils/rate_limiter.go)
\* ------------------------------------------------------------------------

\* A key with no entry in RateLimiter.limiters
NoLimiter == [limit |-> 0, burst |-> 0, tokens |-> 0, last |-> -1]

\* A rate.NewLimiter(r, b) whose bucket starts empty
NewLimiterEmpty(r, b) == [limit |-> r, burst |-> b, tokens |-> 0, last |-> 0]

\* rate.NewLimiter(r, b): a bucket holding b tokens; tokens are counted in
\* 1/TicksPerSecond of a token, so that one tick refills r of these units.
NewLimiter(r, b) == [limit |-> r, burst |-> b, tokens |-> b * TicksPerSecond, last |-> 0]

\* A refill that is not capped at the burst size
AdvanceUncapped(lim, t) == lim.tokens + (t - lim.last) * lim.limit

\* The tokens of bucket lim at time t: refilled from the elapsed time, capped
\* at the burst size.
Advance(lim, t) == Min(lim.burst * TicksPerSecond, lim.tokens + (t - lim.last) * lim.limit)

\* limiter.Allow() at time t: does a whole token exist?
AllowOk(lim, t) == Advance(lim, t) >= TicksPerSecond

\* A limiter.Allow() that admits without taking the token
AllowTakeNoConsume(lim, t) == lim

\* limiter.Allow() at time t: the bucket afterwards; a rejected call changes
\* nothing.
AllowTake(lim, t) ==
    IF AllowOk(lim, t)
    THEN [lim EXCEPT !.tokens = Advance(lim, t) - TicksPerSecond, !.last = t]
    ELSE lim

\* The callers that hold the bucket of key: they are between GetLimiter and
\* limiter.Allow()
Holding(pcs, keys, key) == {p \in DOMAIN pcs : pcs[p] = "allow" /\ keys[p] = key}

\* Calls on key that have started or finished
CallsOn(key) == Len(allowLog[key]) + Cardinality(Holding(rlpc, rlkey, key))

\* A lookup that never finds the key
ExistsNever(lims, key) == FALSE

\* limiter, exists := rl.limiters[key]
Exists(lims, key) == lims[key] # NoLimiter

\* RateLimiter.GetLimiter(key), called from Allow: under rl.mu, find the
\* key's bucket or create it.
GetLimiter(p, key) ==
    /\ rlpc[p] = "idle"
    /\ CallsOn(key) < MaxCalls
    /\ ticker.pc # "locked"
    /\ limiters' = IF Exists(limiters, key)
                   THEN limiters
                   ELSE [limiters EXCEPT ![key] = NewLimiter(rate, burst)]
    /\ made' = IF Exists(limiters, key) THEN made ELSE [made EXCEPT ![key] = @ + 1]
    /\ rlpc' = [rlpc EXCEPT ![p] = "allow"]
    /\ rlkey' = [rlkey EXCEPT ![p] = key]
    /\ allHeld' = (allHeld \/ Holding(rlpc', rlkey', key) = Callers)
    /\ UNCHANGED <<callVars, now, rate, burst, allowLog, ticker, svcVars, listVars, httpVars>>

\* limiter.Allow(), the second half of RateLimiter.Allow: under the bucket's
\* own mutex, take one token if there is one.
LimiterAllow(p) ==
    /\ rlpc[p] = "allow"
    /\ LET key == rlkey[p]
           lim == limiters[key]
       IN /\ limiters' = [limiters EXCEPT ![key] = AllowTake(lim, now)]
          /\ allowLog' = [allowLog EXCEPT ![key] = Append(@, [ok |-> AllowOk(lim, now), t |-> now])]
    /\ rlpc' = [rlpc EXCEPT ![p] = "idle"]
    /\ UNCHANGED <<callVars, now, rate, burst, rlkey, ticker, made, allHeld, svcVars, listVars, httpVars>>

\* The longest interval CleanupOldLimiters is started with, in ticks
MaxAge == 2

\* No ticker: CleanupOldLimiters has not been called
NoTicker == [pc |-> "off", maxAge |-> 0, next |-> 0, ticks |-> 0, swept |-> 0]

\* A sweep that evicts every bucket
CleanupSweepEvict(lims) == [k \in DOMAIN lims |-> NoLimiter]

\* The body of the cleanup loop, lines 70-72: for key := range rl.limiters
\* { _ = key }; the map afterwards
CleanupSweep(lims) == lims

\* RateLimiter.CleanupOldLimiters(maxAge): time.NewTicker(maxAge) and the
\* goroutine that waits on ticker.C
CleanupOldLimiters(maxAge) ==
    /\ ticker.pc = "off"
    /\ ticker' = [NoTicker EXCEPT !.pc = "waiting", !.maxAge = maxAge, !.next = now + maxAge]
    /\ UNCHANGED <<callVars, now, rate, burst, limiters, rlpc, rlkey, allowLog, made, allHeld,
                   svcVars, listVars, httpVars>>

\* One tick of ticker.C: rl.mu.Lock() and the range over rl.limiters
CleanupTick ==
    /\ ticker.pc = "waiting"
    /\ now >= ticker.next
    /\ limiters' = CleanupSweep(limiters)
    /\ ticker' = [ticker EXCEPT !.pc = "locked", !.next = @ + ticker.maxAge, !.ticks = @ + 1,
                                !.swept = Cardinality({k \in DOMAIN limiters : Exists(limiters, k)})]
    /\ UNCHANGED <<callVars, now, rate, burst, rlpc, rlkey, allowLog, made, allHeld,
                   svcVars, listVars, httpVars>>

\* rl.mu.Unlock() at the end of the tick; the goroutine waits for the next
CleanupUnlock ==
    /\ ticker.pc = "locked"
    /\ ticker' = [ticker EXCEPT !.pc = "waiting"]
    /\ UNCHANGED <<callVars, now, rate, burst, limiters, rlpc, rlkey, allowLog, made, allHeld,
                   svcVars, listVars, httpVars>>

\* The wall clock advances
TickRL ==
    /\ now < MaxTime
    /\ now' = now + 1
    /\ UNCHANGED <<callVars, rlVars, svcVars, listVars, httpVars>>

\* ------------------------------------------------------------------------
\* Items and the items table (models.Item, migrations/002)
\* ------------------------------------------------------------------------

\* uuid.Nil, and the identifiers uuid.New() can return
NilId == 0
SvcIds == {1, 2}
AllIds == {NilId} \cup SvcIds

\* Request values. Prices are counted in thousandths: 10 is 0.01, 15 is 0.015.
CreateReqs == {[name |-> "a", stock |-> 5, price |-> 10],
               [name |-> "b", stock |-> 15, price |-> 15]}

\* An unset field of UpdateItemRequest (a nil pointer)
NoName == "<nil>"
NoInt == -1

\* The requests of concurrent callers
ConcCreateReqs == {[name |-> "a", stock |-> 5, price |-> 10]}
ConcUpdateReqs == {[name |-> NoName, stock |-> 25, price |-> NoInt],
                   [name |-> NoName, stock |-> NoInt, price |-> 20]}

\* Every combination of set and unset fields
UpdateReqs == [name : {NoName, "c"}, stock : {NoInt, 25}, price : {NoInt, 25}]
NoReq == [name |-> NoName, stock |-> NoInt, price |-> NoInt]

\* &models.Item{}: timestamps 0 are the zero time, deleted_at 0 is NULL
ZeroItem == [id |-> NilId, name |-> "", stock |-> 0, price |-> 0,
             created_at |-> 0, updated_at |-> 0, deleted_at |-> 0]

\* No row (in the table), nil (as a *models.Item)
NoRow == [ZeroItem EXCEPT !.id = -1]

\* price DECIMAL(10, 2): the store rounds a price to two decimals, half up
RoundPrice(price) == ((price + 5) \div 10) * 10

\* The row the table holds for an item written to it
StoreRow(item) == [item EXCEPT !.price = RoundPrice(@)]

\* gorm sets CreatedAt and UpdatedAt of the item it inserts, if they are zero
StampCreate(item, t) ==
    [item EXCEPT !.created_at = IF @ = 0 THEN t ELSE @,
                 !.updated_at = IF @ = 0 THEN t ELSE @]

\* A row that reads see: present and not soft-deleted
Live(st, id) == st[id] # NoRow /\ st[id].deleted_at = 0

\* A db.First that reads soft-deleted rows too
DbFirstUnscoped(st, id) == st[id]

\* db.Where("id = ?", id).First(item): the live row, or NoRow for
\* gorm.ErrRecordNotFound
DbFirst(st, id) == IF Live(st, id) THEN st[id] ELSE NoRow

\* Item.BeforeCreate: a nil identifier is replaced by uuid.New()
BeforeCreate(item, newid) == IF item.id = NilId THEN [item EXCEPT !.id = newid] ELSE item

\* An identifier source that may repeat itself
NewUuidsAny(st) == SvcIds

\* uuid.New(): a random identifier, one that the table does not hold
NewUuids(st) == {id \in DOMAIN st \ {NilId} : st[id] = NoRow}

\* id UUID PRIMARY KEY: an insert of an identifier the table holds (live or
\* soft-deleted) fails
DbCreateConflict(st, item) == st[item.id] # NoRow

\* An insert into a table whose name column is unique: a second live row of
\* the same name is not stored
DbCreateUniqueName(st, item) ==
    IF \E id \in DOMAIN st : st[id] # NoRow /\ st[id].deleted_at = 0 /\ st[id].name = item.name
    THEN st
    ELSE [st EXCEPT ![item.id] = [item EXCEPT !.price = ((@ + 5) \div 10) * 10]]

\* db.Create(item), no conflict: the table afterwards
DbCreate(st, item) == [st EXCEPT ![item.id] = StoreRow(item)]

\* db.Save(item) at time t: UPDATE of all columns of the live row; when no row
\* is affected, INSERT .. ON CONFLICT (id) DO UPDATE of all columns but
\* created_at (deleted_at included).
DbSave(st, item, t) ==
    LET it == [item EXCEPT !.updated_at = t]
    IN IF Live(st, item.id)
       THEN [st EXCEPT ![item.id] = StoreRow(it)]
       ELSE IF st[item.id] = NoRow
            THEN [st EXCEPT ![item.id] = StoreRow(StampCreate(it, t))]
            ELSE [st EXCEPT ![item.id] = [StoreRow(it) EXCEPT !.created_at = st[item.id].created_at]]

\* db.Where("id = ?", id).Delete(&models.Item{}) at time t: the soft delete
DbDelete(st, id, t) == [st EXCEPT ![id] = [@ EXCEPT !.deleted_at = t]]

\* UpdateItem: the fields present in the request overwrite the fetched item
ApplyUpdate(item, req) ==
    [item EXCEPT !.name = IF req.name # NoName THEN req.name ELSE @,
                 !.stock = IF req.stock # NoInt THEN req.stock ELSE @,
                 !.price = IF req.price # NoInt THEN req.price ELSE @]

\* ------------------------------------------------------------------------
\* The read-through cache (ristretto) of the item service
\* ------------------------------------------------------------------------

\* setCache's TTL, 5 minutes, in ticks (of 5 minutes in the item service)
CacheTTL == 1

\* No entry. An entry holds the item, its expiry, and for the claims the
\* commit count at which the item was fetched (asof) and whether a mutating
\* call committed after that fetch and cleared the cache before the put
\* (raced), and the number of cache clears that had been made when the
\* entry was put (clears).
NoEntry == [item |-> NoRow, exp |-> 0, asof |-> 0, raced |-> FALSE, clears |-> 0]
EmptyCache == [id \in AllIds |-> NoEntry]

\* The cache field of a service whose cache could not be constructed: nil
NilCache == [id \in AllIds |-> [NoEntry EXCEPT !.exp = -1]]

\* A cache.Get that returns an entry whatever its expiry
CacheGetNoExpiry(c, id, t) == c[id]

\* getFromCache: nothing when the service has no cache; otherwise
\* cache.Get(id) at time t: the entry, unless there is none or it has expired
CacheGet(c, id, t) ==
    IF c = NilCache THEN NoEntry
    ELSE IF c[id] # NoEntry /\ t <= c[id].exp THEN c[id] ELSE NoEntry

\* A setCache that does not look whether the service has a cache
CacheSetUnchecked(c, id, entry, t) == [c EXCEPT ![id] = [entry EXCEPT !.exp = t + CacheTTL]]

\* setCache: nothing when the service has no cache; otherwise
\* cache.SetWithTTL(id, item, 1, 5*time.Minute) at time t
CacheSet(c, id, entry, t) ==
    IF c = NilCache THEN c ELSE [c EXCEPT ![id] = [entry EXCEPT !.exp = t + CacheTTL]]

\* An invalidateCache that clears nothing
InvalidateCacheNoop(c) == c

\* invalidateCache: nothing when the service has no cache; otherwise
\* cache.Clear()
InvalidateCache(c) == IF c = NilCache THEN c ELSE EmptyCache

\* ------------------------------------------------------------------------
\* The item service (utils/item_service.go)
\* ------------------------------------------------------------------------

\* The stats struct of GetItemStats before any query has filled it
NoStats == [total_items |-> 0, total_value |-> 0, average_price |-> 0, low_stock_items |-> 0]

IdleLoc == [id |-> NilId, req |-> NoReq, item |-> NoRow, need |-> {}, asof |-> 0,
            myver |-> 0, before |-> NoRow, after |-> NoRow, stats |-> NoStats]

NoRes == [kind |-> "none", id |-> NilId, ok |-> FALSE, err |-> "", item |-> NoRow,
          req |-> NoReq, need |-> {}, asof |-> 0, hit |-> FALSE, raced |-> FALSE,
          exp |-> 0, clears |-> 0, stats |-> NoStats, upto |-> 0,
          before |-> NoRow, after |-> NoRow]

\* Mutating calls that have committed or are on their way to
Mutations == ver + Cardinality({p \in Procs : pc[p] = "upd_save"})

Return(p, r) ==
    /\ res' = r
    /\ pc' = [pc EXCEPT ![p] = "idle"]
    /\ loc' = [loc EXCEPT ![p] = IdleLoc]

Commit(id, isDelete) ==
    /\ ver' = ver + 1
    /\ modVers' = [modVers EXCEPT ![id] = @ \cup {ver + 1}]
    /\ delVers' = IF isDelete THEN delVers \cup {ver + 1} ELSE delVers

\* CreateItem, lines 60-69: build the item, BeforeCreate assigns the
\* identifier, insert; a failed insert returns the error.
CreateItem(p, budget, req) ==
    /\ pc[p] = "idle"
    /\ Mutations < budget
    /\ \E newid \in NewUuids(store) :
        LET item == StampCreate(BeforeCreate([ZeroItem EXCEPT !.name = req.name,
                        !.stock = req.stock, !.price = req.price], newid), now)
        IN IF DbCreateConflict(store, item)
           THEN /\ Return(p, [NoRes EXCEPT !.kind = "create", !.req = req,
                                           !.err = "failed to create item"])
                /\ UNCHANGED <<store, ver, modVers, delVers>>
           ELSE /\ store' = DbCreate(store, item)
                /\ Commit(item.id, FALSE)
                /\ pc' = [pc EXCEPT ![p] = "create_inval"]
                /\ loc' = [loc EXCEPT ![p] = [IdleLoc EXCEPT !.id = item.id, !.req = req,
                                                 !.item = item, !.myver = ver + 1]]
                /\ res' = NoRes
    /\ UNCHANGED <<callVars, now, rlVars, listVars, httpVars, cache, done, createdLog, updatedLog>>

\* CreateItem, lines 71-73: invalidate the cache, return the item
CreateInvalidate(p) ==
    /\ pc[p] = "create_inval"
    /\ cache' = InvalidateCache(cache)
    /\ done' = done \cup {loc[p].myver}
    /\ createdLog' = Append(createdLog, [id |-> loc[p].id, req |-> loc[p].req])
    /\ Return(p, [NoRes EXCEPT !.kind = "create", !.id = loc[p].id, !.ok = TRUE,
                               !.item = loc[p].item, !.req = loc[p].req])
    /\ UNCHANGED <<callVars, now, rlVars, listVars, httpVars, store, ver, modVers, delVers,
                   updatedLog>>

\* GetItem, lines 77-79: a cache hit returns the cached item
GetItem(p, id) ==
    /\ pc[p] = "idle"
    /\ LET e == CacheGet(cache, id, now)
       IN IF e # NoEntry
          THEN Return(p, [NoRes EXCEPT !.kind = "get", !.id = id, !.ok = TRUE,
                                       !.item = e.item, !.need = done, !.asof = e.asof,
                                       !.hit = TRUE, !.raced = e.raced,
                                       !.exp = e.exp, !.clears = e.clears])
          ELSE /\ pc' = [pc EXCEPT ![p] = "get_fetch"]
               /\ loc' = [loc EXCEPT ![p] = [IdleLoc EXCEPT !.id = id, !.need = done]]
               /\ res' = NoRes
    /\ UNCHANGED <<callVars, now, rlVars, listVars, httpVars, store, cache, ver, modVers, delVers, done, createdLog, updatedLog>>

\* GetItem, lines 81-87: fetch the row; "item not found" when there is none
GetItemFetch(p) ==
    /\ pc[p] = "get_fetch"
    /\ LET row == DbFirst(store, loc[p].id)
       IN IF row = NoRow
          THEN Return(p, [NoRes EXCEPT !.kind = "get", !.id = loc[p].id,
                                       !.err = "item not found", !.need = loc[p].need,
                                       !.asof = ver])
          ELSE /\ pc' = [pc EXCEPT ![p] = "get_put"]
               /\ loc' = [loc EXCEPT ![p].item = row, ![p].asof = ver]
               /\ res' = NoRes
    /\ UNCHANGED <<callVars, now, rlVars, listVars, httpVars, store, cache, ver, modVers, delVers, done, createdLog, updatedLog>>

\* GetItem, lines 89-91: put the item into the cache (ristretto may drop a
\* Set), return it
GetItemSetCache(p) ==
    /\ pc[p] = "get_put"
    /\ \E landed \in BOOLEAN :
        cache' = IF landed
                 THEN CacheSet(cache, loc[p].id,
                               [NoEntry EXCEPT !.item = loc[p].item, !.asof = loc[p].asof,
                                               !.raced = \E v \in done : loc[p].asof < v,
                                               !.clears = Cardinality(done)], now)
                 ELSE cache
    /\ Return(p, [NoRes EXCEPT !.kind = "get", !.id = loc[p].id, !.ok = TRUE,
                               !.item = loc[p].item, !.need = loc[p].need,
                               !.asof = loc[p].asof])
    /\ UNCHANGED <<callVars, now, rlVars, listVars, httpVars, store, ver, modVers, delVers, done, createdLog, updatedLog>>

\* UpdateItem, lines 95-111: fetch the row ("item not found" when there is
\* none) and apply the fields of the request to it
UpdateItem(p, budget, id, req) ==
    /\ pc[p] = "idle"
    /\ Mutations < budget
    /\ LET row == DbFirst(store, id)
       IN IF row = NoRow
          THEN Return(p, [NoRes EXCEPT !.kind = "update", !.id = id, !.req = req,
                                       !.err = "item not found"])
          ELSE /\ pc' = [pc EXCEPT ![p] = "upd_save"]
               /\ loc' = [loc EXCEPT ![p] = [IdleLoc EXCEPT !.id = id, !.req = req,
                                                !.item = ApplyUpdate(row, req),
                                                !.before = store[id]]]
               /\ res' = NoRes
    /\ UNCHANGED <<callVars, now, rlVars, listVars, httpVars, store, cache, ver, modVers, delVers, done, createdLog, updatedLog>>

\* UpdateItem, lines 113-115: db.Save(item)
UpdateSave(p) ==
    /\ pc[p] = "upd_save"
    /\ store' = DbSave(store, loc[p].item, now)
    /\ Commit(loc[p].id, FALSE)
    /\ pc' = [pc EXCEPT ![p] = "upd_inval"]
    /\ loc' = [loc EXCEPT ![p].item = [@ EXCEPT !.updated_at = now],
                          ![p].myver = ver + 1,
                          ![p].after = store'[loc[p].id]]
    /\ res' = NoRes
    /\ UNCHANGED <<callVars, now, rlVars, listVars, httpVars, cache, done, createdLog, updatedLog>>

\* UpdateItem, lines 117-119: invalidate the cache, return the item
UpdateInvalidate(p) ==
    /\ pc[p] = "upd_inval"
    /\ cache' = InvalidateCache(cache)
    /\ done' = done \cup {loc[p].myver}
    /\ Return(p, [NoRes EXCEPT !.kind = "update", !.id = loc[p].id, !.ok = TRUE,
                               !.item = loc[p].item, !.req = loc[p].req,
                               !.before = loc[p].before, !.after = loc[p].after])
    /\ updatedLog' = updatedLog \cup {[id |-> loc[p].id, req |-> loc[p].req]}
    /\ UNCHANGED <<callVars, now, rlVars, listVars, httpVars, store, ver, modVers, delVers, createdLog>>

\* DeleteItem, lines 123-129: soft-delete the row; "item not found" when no
\* row was affected
DeleteItem(p, budget, id) ==
    /\ pc[p] = "idle"
    /\ Mutations < budget
    /\ IF ~Live(store, id)
       THEN /\ Return(p, [NoRes EXCEPT !.kind = "delete", !.id = id,
                                       !.err = "item not found"])
            /\ UNCHANGED <<store, ver, modVers, delVers>>
       ELSE /\ store' = DbDelete(store, id, now)
            /\ Commit(id, TRUE)
            /\ pc' = [pc EXCEPT ![p] = "del_inval"]
            /\ loc' = [loc EXCEPT ![p] = [IdleLoc EXCEPT !.id = id, !.myver = ver + 1]]
            /\ res' = NoRes
    /\ UNCHANGED <<callVars, now, rlVars, listVars, httpVars, cache, done, createdLog, updatedLog>>

\* DeleteItem, lines 131-133: invalidate the cache, return nil
DeleteInvalidate(p) ==
    /\ pc[p] = "del_inval"
    /\ cache' = InvalidateCache(cache)
    /\ done' = done \cup {loc[p].myver}
    /\ Return(p, [NoRes EXCEPT !.kind = "delete", !.id = loc[p].id, !.ok = TRUE])
    /\ UNCHANGED <<callVars, now, rlVars, listVars, httpVars, store, ver, modVers, delVers, createdLog, updatedLog>>

\* The wall clock advances
TickSvc ==
    /\ now < MaxClock
    /\ now' = now + 1
    /\ res' = NoRes
    /\ UNCHANGED <<callVars, rlVars, listVars, httpVars, store, cache, pc, loc, ver, modVers, delVers, done, createdLog, updatedLog>>

\* One step of caller p: it starts a call (a mutating one while fewer than
\* budget have been made, its request drawn from creates and updates) or
\* takes the next step of its call
Step(p, budget, creates, updates) ==
    \/ \E req \in creates : CreateItem(p, budget, req)
    \/ CreateInvalidate(p)
    \/ \E id \in SvcIds : GetItem(p, id)
    \/ GetItemFetch(p)
    \/ GetItemSetCache(p)
    \/ \E id \in SvcIds, req \in updates : UpdateItem(p, budget, id, req)
    \/ UpdateSave(p)
    \/ UpdateInvalidate(p)
    \/ \E id \in SvcIds : DeleteItem(p, budget, id)
    \/ DeleteInvalidate(p)

\* ------------------------------------------------------------------------
\* Listing: ItemService.GetItems (utils/item_service.go)
\* ------------------------------------------------------------------------

\* The rows of the static table of a list traversal, and their creation
\* timestamps
ListIds == 1..MaxRows
Stamps == 1..MaxRows

\* The two kinds of item in that table
ItemKinds == {[name |-> "a", stock |-> 5, price |-> 10],
              [name |-> "ab", stock |-> 15, price |-> 20]}

\* The row of identifier id, of kind k, created at t; deleted_at d (0: live)
ListRow(id, k, t, d) == [id |-> id, name |-> k.name, stock |-> k.stock, price |-> k.price,
                         created_at |-> t, updated_at |-> t, deleted_at |-> d]

\* The characters of the strings that names and name filters are
Chars(str) ==
    CASE str = "" -> <<>>
      [] str = "a" -> <<"a">>
      [] str = "ab" -> <<"a", "b">>
      [] str = "b" -> <<"b">>
      [] str = "c" -> <<"c">>
      [] str = "B" -> <<"B">>
      [] str = "_" -> <<"_">>

\* Case folding and collation order of a character
LowerChar(c) == CASE c = "A" -> "a" [] c = "B" -> "b" [] OTHER -> c
CharRank(c) == CASE LowerChar(c) = "a" -> 1 [] LowerChar(c) = "b" -> 2 [] OTHER -> 3

LowerSeq(cs) == [i \in 1..Len(cs) |-> LowerChar(cs[i])]

\* cs LIKE ps: in the pattern, % stands for any characters and _ for any one
\* character
RECURSIVE LikeMatch(_, _)
LikeMatch(cs, ps) ==
    IF ps = <<>> THEN cs = <<>>
    ELSE IF Head(ps) = "%"
    THEN LikeMatch(cs, Tail(ps)) \/ (cs # <<>> /\ LikeMatch(Tail(cs), ps))
    ELSE /\ cs # <<>>
         /\ Head(ps) = "_" \/ Head(ps) = Head(cs)
         /\ LikeMatch(Tail(cs), Tail(ps))

\* name ILIKE '%' || sub || '%': the filter's text is part of the pattern
NameILike(name, sub) ==
    LikeMatch(LowerSeq(Chars(name)), <<"%">> \o LowerSeq(Chars(sub)) \o <<"%">>)

\* Text comparison: cs sorts before ds
RECURSIVE SeqLess(_, _)
SeqLess(cs, ds) ==
    IF ds = <<>> THEN FALSE
    ELSE IF cs = <<>> THEN TRUE
    ELSE IF Head(cs) = Head(ds) THEN SeqLess(Tail(cs), Tail(ds))
    ELSE CharRank(Head(cs)) < CharRank(Head(ds))

\* models.FilterRequest; Name "" and nil pointers (NoInt) are filters not given
NoFilter == [name |-> "", min_stock |-> NoInt, min_price |-> NoInt, max_price |-> NoInt]
FilterReqs == {NoFilter,
               [NoFilter EXCEPT !.name = "B"],
               [NoFilter EXCEPT !.min_stock = 10],
               [NoFilter EXCEPT !.min_price = 5, !.max_price = 10]}

\* GetItems, lines 139-152: the WHERE conditions of the filters given
Matches(row, filters) ==
    /\ filters.name # "" => NameILike(row.name, filters.name)
    /\ filters.min_stock # NoInt => row.stock >= filters.min_stock
    /\ filters.min_price # NoInt => row.price >= filters.min_price
    /\ filters.max_price # NoInt => row.price <= filters.max_price

\* models.SortRequest; SortBy "" is no sort given
NoSort == [sort_by |-> "", sort_order |-> ""]
SortReqs == {NoSort} \cup [sort_by : {"name", "stock", "price", "created_at"},
                           sort_order : {"asc", "desc"}]

\* GetItems, lines 154-162: the ORDER BY column and direction
OrderOf(sort) ==
    IF sort.sort_by # ""
    THEN [column |-> sort.sort_by, desc |-> sort.sort_order = "desc"]
    ELSE [column |-> "created_at", desc |-> TRUE]

\* The columns of the items table that the requests here sort by; ORDER BY
\* with a name that is no column of the table is an error of the store
SortColumns == {"name", "stock", "price", "created_at"}

\* Row x has a smaller value than row y in the column
ColumnLess(x, y, column) ==
    CASE column = "name" -> SeqLess(Chars(x.name), Chars(y.name))
      [] column = "stock" -> x.stock < y.stock
      [] column = "price" -> x.price < y.price
      [] column = "created_at" -> x.created_at < y.created_at

\* ORDER BY column direction: x comes before y; rows equal in the column come
\* in the order the store happens to produce them in (tie)
Precedes(x, y, order, tie) ==
    LET lt == ColumnLess(x, y, order.column)
        gt == ColumnLess(y, x, order.column)
    IN IF ~lt /\ ~gt THEN tie[x.id] < tie[y.id]
       ELSE IF order.desc THEN gt ELSE lt

\* The rows of identifiers ids in the order of ORDER BY
RECURSIVE OrderRows(_, _, _, _)
OrderRows(st, ids, order, tie) ==
    IF ids = {} THEN <<>>
    ELSE LET first == CHOOSE x \in ids : \A y \in ids \ {x} : Precedes(st[x], st[y], order, tie)
         IN <<st[first]>> \o OrderRows(st, ids \ {first}, order, tie)

\* The first n elements of a sequence
Take(seq, n) == SubSeq(seq, 1, Min(n, Len(seq)))

\* CursorData: identifier and creation timestamp in their string forms
\* (uuid.String(), time.RFC3339Nano), which are one-to-one and stand here as
\* the numbers themselves; BadString is a string that is neither (such as "")
BadString == -1

\* A cursor token. The empty string, a string that is no base64, the base64
\* of a text that is no JSON, and the base64 of a JSON object
NoCursor == [kind |-> "empty", id |-> BadString, created_at |-> BadString]
NotBase64 == [kind |-> "not base64", id |-> BadString, created_at |-> BadString]
NotJSON == [kind |-> "not json", id |-> BadString, created_at |-> BadString]

\* encodeCursor: base64 of the JSON object {"id": .., "created_at": ..}
EncodeCursor(cd) == [kind |-> "base64 json", id |-> cd.id, created_at |-> cd.created_at]

\* decodeCursor: base64 decoding, then json.Unmarshal into CursorData; a
\* field the object lacks is left ""
DecodeCursor(token) ==
    IF token.kind = "base64 json"
    THEN [ok |-> TRUE, id |-> token.id, created_at |-> token.created_at]
    ELSE [ok |-> FALSE, id |-> BadString, created_at |-> BadString]

\* The tokens a caller sends: cursors of every position, and malformed ones
CursorTokens ==
    {EncodeCursor([id |-> id, created_at |-> t]) : id \in 0..(MaxRows + 1), t \in Stamps}
        \cup {NotBase64, NotJSON, EncodeCursor([id |-> BadString, created_at |-> BadString])}

\* A cursor predicate that keeps the cursor's own timestamp
CursorPredicateInclusive(row, cd) == row.created_at <= cd.created_at

\* GetItems, lines 179-180:
\* (created_at < ?) OR (created_at = ? AND id < ?)
CursorPredicate(row, cd) ==
    \/ row.created_at < cd.created_at
    \/ row.created_at = cd.created_at /\ row.id < cd.id

\* A query that fetches no row beyond the page
FetchLimitExact(limit) == limit

\* GetItems, line 187: query.Limit(limit + 1)
FetchLimit(limit) == limit + 1

\* The limit of a request that gives none
DefaultLimit == 10

\* A cursor made from the first item of the page
FirstItem(items) == items[1]

\* GetItems, line 199: the last item of the page
LastItem(items) == items[Len(items)]

\* models.PaginatedResponse and the error of GetItems; no call made
NoPage == [ok |-> FALSE, err |-> "none", items |-> <<>>, next_cursor |-> NoCursor,
           has_more |-> FALSE, total |-> 0]
ErrPage(err) == [NoPage EXCEPT !.err = err]

NoListReq == [cursor |-> NoCursor, limit |-> 0, filters |-> NoFilter, sort |-> NoSort,
              traversal |-> FALSE]

\* The live rows of the table that the filters keep
Matching(st, filters) == {id \in DOMAIN st : Live(st, id) /\ Matches(st[id], filters)}

\* GetItems on table st; tie is the order in which the store produces rows
\* that are equal in the ORDER BY column
GetItems(st, pagination, filters, sort, tie) ==
    LET matching == Matching(st, filters)
        total == Cardinality(matching)
        hasCursor == pagination.cursor # NoCursor
        cd == DecodeCursor(pagination.cursor)
        limit == IF pagination.limit > 0 THEN pagination.limit ELSE DefaultLimit
        ids == {id \in matching : hasCursor => CursorPredicate(st[id], cd)}
        found == Take(OrderRows(st, ids, OrderOf(sort), tie), FetchLimit(limit))
        hasMore == Len(found) > limit
        items == IF hasMore THEN Take(found, limit) ELSE found
        nextCursor == IF hasMore /\ Len(items) > 0
                      THEN EncodeCursor([id |-> LastItem(items).id,
                                         created_at |-> LastItem(items).created_at])
                      ELSE NoCursor
    IN IF hasCursor /\ ~cd.ok THEN ErrPage("invalid cursor")
       ELSE IF hasCursor /\ (cd.id = BadString \/ cd.created_at = BadString)
       THEN ErrPage("failed to get items")
       ELSE IF OrderOf(sort).column \notin SortColumns THEN ErrPage("failed to get items")
       ELSE [ok |-> TRUE, err |-> "", items |-> items, next_cursor |-> nextCursor,
             has_more |-> hasMore, total |-> total]

\* The identifiers of the items of a page
PageIds(p) == [i \in 1..Len(p.items) |-> p.items[i].id]

\* A caller asks for the first page
ListFirst(limit, filters, sort) ==
    /\ page = NoPage
    /\ \E tie \in Permutations(DOMAIN store) :
        page' = GetItems(store, [cursor |-> NoCursor, limit |-> limit], filters, sort, tie)
    /\ listReq' = [cursor |-> NoCursor, limit |-> limit, filters |-> filters, sort |-> sort,
                   traversal |-> TRUE]
    /\ visited' = PageIds(page')
    /\ UNCHANGED <<callVars, now, rlVars, svcVars, httpVars>>

\* The caller asks for the next page, with the cursor of the page it has
ListNext ==
    /\ listReq.traversal
    /\ page.ok
    /\ page.next_cursor # NoCursor
    /\ \E tie \in Permutations(DOMAIN store) :
        page' = GetItems(store, [cursor |-> page.next_cursor, limit |-> listReq.limit],
                         listReq.filters, listReq.sort, tie)
    /\ listReq' = [listReq EXCEPT !.cursor = page.next_cursor]
    /\ visited' = visited \o PageIds(page')
    /\ UNCHANGED <<callVars, now, rlVars, svcVars, httpVars>>

\* A caller asks for the page at a cursor token of its own
ListAt(token, limit) ==
    /\ page = NoPage
    /\ \E tie \in Permutations(DOMAIN store) :
        page' = GetItems(store, [cursor |-> token, limit |-> limit], NoFilter, NoSort, tie)
    /\ listReq' = [cursor |-> token, limit |-> limit, filters |-> NoFilter, sort |-> NoSort,
                   traversal |-> FALSE]
    /\ visited' = <<>>
    /\ UNCHANGED <<callVars, now, rlVars, svcVars, httpVars>>

\* ------------------------------------------------------------------------
\* Statistics (ItemService.GetItemStats)
\* ------------------------------------------------------------------------

\* The stock below which an item counts as low on stock
LowStockThreshold == 10

\* average_price is a quotient kept to a finite precision: AvgScale units of
\* it make one unit of price
AvgScale == 8

\* The live rows of the table (the soft-delete scope of every query)
LiveIds(st) == {id \in DOMAIN st : Live(st, id)}

\* SUM(price * stock) and SUM(price) over the rows ids
RECURSIVE SumValue(_, _)
SumValue(st, ids) ==
    IF ids = {} THEN 0
    ELSE LET id == CHOOSE x \in ids : TRUE
         IN st[id].price * st[id].stock + SumValue(st, ids \ {id})

RECURSIVE SumPrice(_, _)
SumPrice(st, ids) ==
    IF ids = {} THEN 0
    ELSE LET id == CHOOSE x \in ids : TRUE
         IN st[id].price + SumPrice(st, ids \ {id})

\* a / b rounded to the nearest whole number, for a >= 0 and b > 0
RoundDiv(a, b) == (2 * a + b) \div (2 * b)

\* AVG(price) over the rows ids, in 1/AvgScale of a price unit; NULL over no
\* row, which Scan leaves as the zero value
AvgPrice(st, ids) ==
    IF ids = {} THEN 0 ELSE RoundDiv(SumPrice(st, ids) * AvgScale, Cardinality(ids))

\* A low-stock test that counts the threshold itself
LowStockInclusive(row) == row.stock <= LowStockThreshold

\* Where("stock < ?", 10)
LowStock(row) == row.stock < LowStockThreshold

\* GetItemStats on table st: the count, the two aggregates, the low-stock
\* count
GetItemStats(st) ==
    [total_items |-> Cardinality(LiveIds(st)),
     total_value |-> SumValue(st, LiveIds(st)),
     average_price |-> AvgPrice(st, LiveIds(st)),
     low_stock_items |-> Cardinality({id \in LiveIds(st) : LowStock(st[id])})]

\* Line 324: Count(&stats.TotalItems)
CountItems(st) == Cardinality(LiveIds(st))

\* A low-stock count that leaves the soft-delete scope
CountLowStockUnscoped(st) == Cardinality({id \in DOMAIN st : st[id] # NoRow /\ LowStock(st[id])})

\* Line 332: Where("stock < ?", 10).Count(&stats.LowStockItems)
CountLowStock(st) == Cardinality({id \in LiveIds(st) : LowStock(st[id])})

\* GetItemStats, lines 324-326: the first query counts the items. Each of
\* the three queries is a statement of its own, with no transaction around
\* them. For the claims, asof is the number of commits made so far.
StatsCount(p) ==
    /\ pc[p] = "idle"
    /\ pc' = [pc EXCEPT ![p] = "stats_sum"]
    /\ loc' = [loc EXCEPT ![p] = [IdleLoc EXCEPT !.stats.total_items = CountItems(store),
                                                 !.asof = ver]]
    /\ res' = NoRes
    /\ UNCHANGED <<callVars, now, rlVars, listVars, httpVars, store, cache, ver, modVers, delVers,
                   done, createdLog, updatedLog>>

\* GetItemStats, lines 328-330: the second query scans SUM(price * stock)
\* and AVG(price)
StatsSum(p) ==
    /\ pc[p] = "stats_sum"
    /\ pc' = [pc EXCEPT ![p] = "stats_low"]
    /\ loc' = [loc EXCEPT ![p].stats.total_value = SumValue(store, LiveIds(store)),
                          ![p].stats.average_price = AvgPrice(store, LiveIds(store))]
    /\ res' = NoRes
    /\ UNCHANGED <<callVars, now, rlVars, listVars, httpVars, store, cache, ver, modVers, delVers,
                   done, createdLog, updatedLog>>

\* GetItemStats, lines 332-341: the third query counts the low-stock items;
\* the map of the four numbers is returned
StatsLowStock(p) ==
    /\ pc[p] = "stats_low"
    /\ Return(p, [NoRes EXCEPT !.kind = "stats", !.ok = TRUE,
                               !.stats = [loc[p].stats EXCEPT
                                             !.low_stock_items = CountLowStock(store)],
                               !.asof = loc[p].asof, !.upto = ver])
    /\ UNCHANGED <<callVars, now, rlVars, listVars, httpVars, store, cache, ver, modVers, delVers,
                   done, createdLog, updatedLog>>

\* ------------------------------------------------------------------------
\* The HTTP layer (routes.SetupRoutes, controllers.ItemController,
\* utils.RateLimitMiddleware)
\* ------------------------------------------------------------------------

\* The routes of the /api/v1/inventory group
RouteGetItems == "GET /api/v1/inventory"
RouteCreateItem == "POST /api/v1/inventory"
RouteGetItemStats == "GET /api/v1/inventory/stats"
RouteSeedDatabase == "POST /api/v1/inventory/seed"
RouteGetItem == "GET /api/v1/inventory/:id"
RouteUpdateItem == "PUT /api/v1/inventory/:id"
RouteDeleteItem == "DELETE /api/v1/inventory/:id"
InventoryRoutes == {RouteGetItems, RouteCreateItem, RouteGetItemStats, RouteSeedDatabase,
                    RouteGetItem, RouteUpdateItem, RouteDeleteItem}
MutatingRoutes == {RouteCreateItem, RouteSeedDatabase, RouteUpdateItem, RouteDeleteItem}

\* A call made while a request is served: the admission check, the
\* controller's handler, a statement sent to the store, a cache call
\* ("cache.get", "cache.set", "cache.clear"). arg is
\* the LIMIT of a row query, 1 for an admission granted, else 0.
Call(op, arg) == [op |-> op, arg |-> arg]
StoreOps == {"count", "find", "first", "create", "save", "delete", "aggregate"}

\* The text of a query parameter as a number: strconv on the texts that the
\* requests here carry; an absent parameter is ""
ParseInt(str) ==
    CASE str = "" -> [ok |-> TRUE, val |-> 0]
      [] str = "0" -> [ok |-> TRUE, val |-> 0]
      [] str = "1" -> [ok |-> TRUE, val |-> 1]
      [] str = "2" -> [ok |-> TRUE, val |-> 2]
      [] str = "10" -> [ok |-> TRUE, val |-> 10]
      [] str = "100" -> [ok |-> TRUE, val |-> 100]
      [] str = "101" -> [ok |-> TRUE, val |-> 101]
      [] str = "-1" -> [ok |-> TRUE, val |-> -1]
      [] OTHER -> [ok |-> FALSE, val |-> 0]

\* A price parameter, in thousandths
ParsePrice(str) == [ok |-> ParseInt(str).ok, val |-> ParseInt(str).val * 1000]

\* binding:"omitempty,min=1,max=100" of PaginationRequest.Limit
LimitMin == 1
LimitMax == 100

NoQuery == [limit |-> "", cursor |-> NoCursor, name |-> "", min_stock |-> "",
            min_price |-> "", max_price |-> "", sort_by |-> "", sort_order |-> ""]

\* A binding that brings a limit out of range into the range
BindPaginationClamp(q) ==
    LET n == ParseInt(q.limit)
    IN [ok |-> TRUE, limit |-> IF n.val > LimitMax THEN LimitMax
                               ELSE IF n.val < 0 THEN 0 ELSE n.val,
        cursor |-> q.cursor]

\* c.ShouldBindQuery(&pagination): the limit is a number, and 0 (omitempty)
\* or within LimitMin..LimitMax
BindPagination(q) ==
    LET n == ParseInt(q.limit)
    IN IF n.ok /\ (n.val = 0 \/ (n.val >= LimitMin /\ n.val <= LimitMax))
       THEN [ok |-> TRUE, limit |-> n.val, cursor |-> q.cursor]
       ELSE [ok |-> FALSE, limit |-> 0, cursor |-> NoCursor]

\* A pointer field of FilterRequest: nil when the parameter is absent
BindOptional(str, parsed) == IF str = "" THEN NoInt ELSE parsed.val
OptionalOk(str, parsed) == str = "" \/ (parsed.ok /\ parsed.val >= 0)

\* c.ShouldBindQuery(&filters): binding:"omitempty,min=0" of MinStock,
\* MinPrice and MaxPrice
BindFilters(q) ==
    [ok |-> /\ OptionalOk(q.min_stock, ParseInt(q.min_stock))
            /\ OptionalOk(q.min_price, ParsePrice(q.min_price))
            /\ OptionalOk(q.max_price, ParsePrice(q.max_price)),
     filters |-> [name |-> q.name,
                  min_stock |-> BindOptional(q.min_stock, ParseInt(q.min_stock)),
                  min_price |-> BindOptional(q.min_price, ParsePrice(q.min_price)),
                  max_price |-> BindOptional(q.max_price, ParsePrice(q.max_price))]]

SortFields == {"name", "stock", "price", "created_at"}
SortOrders == {"asc", "desc"}

\* A binding that checks the sort field alone
BindSortByOnly(q) ==
    [ok |-> q.sort_by \in SortFields \cup {""},
     sort |-> [sort_by |-> q.sort_by, sort_order |-> q.sort_order]]

\* c.ShouldBindQuery(&sort): binding:"omitempty,oneof=..." of SortBy and
\* SortOrder
BindSort(q) ==
    [ok |-> /\ q.sort_by \in SortFields \cup {""}
            /\ q.sort_order \in SortOrders \cup {""},
     sort |-> [sort_by |-> q.sort_by, sort_order |-> q.sort_order]]

\* The statements GetItems sends to the store: the count, and the row query
\* unless the cursor given cannot be decoded
GetItemsQueries(pagination) ==
    LET limit == IF pagination.limit > 0 THEN pagination.limit ELSE DefaultLimit
    IN IF pagination.cursor # NoCursor /\ ~DecodeCursor(pagination.cursor).ok
       THEN <<Call("count", 0)>>
       ELSE <<Call("count", 0), Call("find", FetchLimit(limit))>>

\* The path parameter :id, and uuid.Parse of it
NoParam == [uuid |-> FALSE, id |-> NilId]
ParamOf(id) == [uuid |-> TRUE, id |-> id]
BadParam == [uuid |-> FALSE, id |-> NoRow.id]

\* The JSON body of a create or update request; none
NoBody == [name |-> NoName, stock |-> NoInt, price |-> NoInt]

\* c.ShouldBindJSON(&req) of CreateItemRequest: required, min=1 / min=0
BindCreate(body) ==
    /\ body.name # NoName /\ body.name # ""
    /\ body.stock # NoInt /\ body.stock > 0
    /\ body.price # NoInt /\ body.price > 0

\* c.ShouldBindJSON(&req) of UpdateItemRequest: omitempty, min=1 / min=0
BindUpdate(body) ==
    /\ body.name # NoName => body.name # ""
    /\ body.stock # NoInt => body.stock >= 0
    /\ body.price # NoInt => body.price >= 0

\* The sample items of SeedDatabase (two stand for the ten)
SeedItems == <<[name |-> "a", stock |-> 5, price |-> 10],
               [name |-> "ab", stock |-> 15, price |-> 20]>>

\* The identifiers uuid.New() gives the n sample items: free ones, distinct
SeedIds(st, n) == {f \in [1..n -> SvcIds] :
                    /\ \A i \in 1..n : st[f[i]] = NoRow
                    /\ \A i, j \in 1..n : i # j => f[i] # f[j]}

\* gin.Context of the request being served, with the calls made for it; no
\* request
NoCtx == [stage |-> "none", route |-> "", ip |-> "", query |-> NoQuery, param |-> NoParam,
          body |-> NoBody, status |-> 0, error |-> "", page |-> NoPage, item |-> NoRow,
          stats |-> NoStats, calls |-> <<>>]

\* c.JSON(status, ...) with the calls the handler made
Respond(status, error, calls) ==
    [ctx EXCEPT !.stage = "done", !.status = status, !.error = error,
                !.calls = @ \o calls]

\* A request arrives at a route of the group; a mutating one while fewer than
\* MaxMut statements have changed the table and the identifiers it needs are
\* left
Request(route, ip, query, param, body) ==
    /\ ctx.stage \in {"none", "done"}
    /\ route \in MutatingRoutes => ver < MaxMut
    /\ route = RouteSeedDatabase => LiveIds(store) # {} \/ SeedIds(store, Len(SeedItems)) # {}
    /\ route = RouteCreateItem => NewUuids(store) # {}
    /\ ctx' = [NoCtx EXCEPT !.stage = "middleware", !.route = route, !.ip = ip,
                            !.query = query, !.param = param, !.body = body]
    /\ UNCHANGED <<callVars, now, rlVars, svcVars, listVars>>

\* A 429 that is written without aborting the chain of handlers
TooManyRequestsNoAbort(c) ==
    [c EXCEPT !.stage = "handler", !.status = 429, !.error = "Rate limit exceeded",
              !.calls = Append(@, Call("allow", 0))]

\* RateLimitMiddleware, lines 52-59: c.JSON(429, ...) and c.Abort()
TooManyRequests(c) ==
    [c EXCEPT !.stage = "done", !.status = 429, !.error = "Rate limit exceeded",
              !.calls = Append(@, Call("allow", 0))]

\* RateLimitMiddleware: limiter.Allow(c.ClientIP()); 429 and c.Abort() when
\* it is false, c.Next() when it is true
RateLimitMiddleware ==
    /\ ctx.stage = "middleware"
    /\ LET key == ctx.ip
           lim == IF Exists(limiters, key) THEN limiters[key] ELSE NewLimiter(rate, burst)
       IN /\ limiters' = [limiters EXCEPT ![key] = AllowTake(lim, now)]
          /\ made' = IF Exists(limiters, key) THEN made ELSE [made EXCEPT ![key] = @ + 1]
          /\ ctx' = IF AllowOk(lim, now)
                    THEN [ctx EXCEPT !.stage = "handler", !.calls = Append(@, Call("allow", 1))]
                    ELSE TooManyRequests(ctx)
    /\ UNCHANGED <<callVars, now, rate, burst, rlpc, rlkey, allowLog, ticker, allHeld, svcVars, listVars>>

\* The handler of the request's route starts
Handles(route) == ctx.stage = "handler" /\ ctx.route = route

\* The defaults the list handler fills in (lines 314-322)
ListDefaults(b, s) ==
    [pagination |-> [limit |-> IF b.limit = 0 THEN DefaultLimit ELSE b.limit,
                     cursor |-> b.cursor],
     sort |-> [sort_by |-> IF s.sort_by = "" THEN "created_at" ELSE s.sort_by,
               sort_order |-> IF s.sort_order = "" THEN "desc" ELSE s.sort_order]]

\* ItemController.GetItems: bind pagination, filters and sort (400 on the
\* first that fails), fill in the defaults, call the service; any error of
\* the service is a 500
ItemControllerGetItems ==
    /\ Handles(RouteGetItems)
    /\ LET pg == BindPagination(ctx.query)
           fl == BindFilters(ctx.query)
           so == BindSort(ctx.query)
           h == <<Call("handler", 0)>>
       IN IF ~pg.ok THEN ctx' = Respond(400, "Invalid pagination parameters", h)
          ELSE IF ~fl.ok THEN ctx' = Respond(400, "Invalid filter parameters", h)
          ELSE IF ~so.ok THEN ctx' = Respond(400, "Invalid sort parameters", h)
          ELSE LET d == ListDefaults(pg, so.sort)
                   queries == GetItemsQueries(d.pagination)
               IN \E tie \in Permutations(DOMAIN store) :
                    LET p == GetItems(store, d.pagination, fl.filters, d.sort, tie)
                    IN ctx' = IF p.ok
                              THEN [Respond(200, "", h \o queries) EXCEPT !.page = p]
                              ELSE Respond(500, "Failed to get items", h \o queries)
    /\ UNCHANGED <<callVars, now, rlVars, svcVars, listVars>>

\* ItemController.GetItemStats
ItemControllerGetItemStats ==
    /\ Handles(RouteGetItemStats)
    /\ ctx' = [Respond(200, "", <<Call("handler", 0), Call("count", 0), Call("aggregate", 0),
                                  Call("count", 0)>>)
                  EXCEPT !.stats = GetItemStats(store)]
    /\ UNCHANGED <<callVars, now, rlVars, svcVars, listVars>>

\* ItemController.GetItem: the identifier is a UUID (400), then the service:
\* the cached item, or the row (404 when there is none), which is put in the
\* cache; the cache may drop the put
ItemControllerGetItem ==
    /\ Handles(RouteGetItem)
    /\ LET id == ctx.param.id
           h == <<Call("handler", 0)>>
           e == CacheGet(cache, id, now)
           row == DbFirst(store, id)
       IN IF ~ctx.param.uuid
          THEN ctx' = Respond(400, "Invalid UUID format", h) /\ UNCHANGED cache
          ELSE IF e # NoEntry
          THEN /\ ctx' = [Respond(200, "", h \o <<Call("cache.get", 0)>>) EXCEPT !.item = e.item]
               /\ UNCHANGED cache
          ELSE IF row = NoRow
          THEN /\ ctx' = Respond(404, "Item not found",
                                 h \o <<Call("cache.get", 0), Call("first", 0)>>)
               /\ UNCHANGED cache
          ELSE /\ ctx' = [Respond(200, "", h \o <<Call("cache.get", 0), Call("first", 0),
                                                  Call("cache.set", 0)>>)
                             EXCEPT !.item = row]
               /\ \E landed \in BOOLEAN :
                    cache' = IF landed
                             THEN CacheSet(cache, id, [NoEntry EXCEPT !.item = row, !.asof = ver,
                                                                    !.clears = Cardinality(done)],
                                           now)
                             ELSE cache
    /\ UNCHANGED <<callVars, now, rlVars, listVars, store, pc, loc, res, ver, modVers, delVers, done,
                   createdLog, updatedLog>>

\* ItemController.CreateItem: bind the body (400), then the service: insert
\* the item (500 when the insert fails) and invalidate the cache
ItemControllerCreateItem ==
    /\ Handles(RouteCreateItem)
    /\ LET h == <<Call("handler", 0)>>
           req == ctx.body
       IN IF ~BindCreate(req)
          THEN /\ ctx' = Respond(400, "Invalid request body", h)
               /\ UNCHANGED <<store, cache, ver, modVers, delVers, done, createdLog, updatedLog>>
          ELSE \E newid \in NewUuids(store) :
                LET item == StampCreate(BeforeCreate([ZeroItem EXCEPT !.name = req.name,
                                !.stock = req.stock, !.price = req.price], newid), now)
                IN IF DbCreateConflict(store, item)
                   THEN /\ ctx' = Respond(500, "Failed to create item",
                                          h \o <<Call("create", 0)>>)
                        /\ UNCHANGED <<store, cache, ver, modVers, delVers, done, createdLog, updatedLog>>
                   ELSE /\ store' = DbCreate(store, item)
                        /\ Commit(item.id, FALSE)
                        /\ cache' = InvalidateCache(cache)
                        /\ done' = done \cup {ver + 1}
                        /\ createdLog' = Append(createdLog, [id |-> item.id, req |-> req])
                        /\ ctx' = [Respond(201, "", h \o <<Call("create", 0),
                                                           Call("cache.clear", 0)>>)
                                      EXCEPT !.item = item]
    /\ UNCHANGED <<callVars, now, rlVars, listVars, pc, loc, res, updatedLog>>

\* ItemController.UpdateItem: the identifier is a UUID (400), bind the body
\* (400), then the service: fetch the row (404), apply the request, save,
\* invalidate the cache
ItemControllerUpdateItem ==
    /\ Handles(RouteUpdateItem)
    /\ LET id == ctx.param.id
           h == <<Call("handler", 0)>>
           row == DbFirst(store, id)
       IN IF ~ctx.param.uuid
          THEN /\ ctx' = Respond(400, "Invalid UUID format", h)
               /\ UNCHANGED <<store, cache, ver, modVers, delVers, done, updatedLog>>
          ELSE IF ~BindUpdate(ctx.body)
          THEN /\ ctx' = Respond(400, "Invalid request body", h)
               /\ UNCHANGED <<store, cache, ver, modVers, delVers, done, updatedLog>>
          ELSE IF row = NoRow
          THEN /\ ctx' = Respond(404, "Item not found", h \o <<Call("first", 0)>>)
               /\ UNCHANGED <<store, cache, ver, modVers, delVers, done, updatedLog>>
          ELSE /\ store' = DbSave(store, ApplyUpdate(row, ctx.body), now)
               /\ Commit(id, FALSE)
               /\ cache' = InvalidateCache(cache)
               /\ done' = done \cup {ver + 1}
               /\ updatedLog' = updatedLog \cup {[id |-> id, req |-> ctx.body]}
               /\ ctx' = [Respond(200, "", h \o <<Call("first", 0), Call("save", 0),
                                                  Call("cache.clear", 0)>>)
                             EXCEPT !.item = [ApplyUpdate(row, ctx.body) EXCEPT !.updated_at = now]]
    /\ UNCHANGED <<callVars, now, rlVars, listVars, pc, loc, res, createdLog>>

\* ItemController.DeleteItem: the identifier is a UUID (400), then the
\* service: soft-delete the row (404 when none was affected), invalidate the
\* cache; 204
ItemControllerDeleteItem ==
    /\ Handles(RouteDeleteItem)
    /\ LET id == ctx.param.id
           h == <<Call("handler", 0)>>
       IN IF ~ctx.param.uuid
          THEN /\ ctx' = Respond(400, "Invalid UUID format", h)
               /\ UNCHANGED <<store, cache, ver, modVers, delVers, done>>
          ELSE IF ~Live(store, id)
          THEN /\ ctx' = Respond(404, "Item not found", h \o <<Call("delete", 0)>>)
               /\ UNCHANGED <<store, cache, ver, modVers, delVers, done>>
          ELSE /\ store' = DbDelete(store, id, now)
               /\ Commit(id, TRUE)
               /\ cache' = InvalidateCache(cache)
               /\ done' = done \cup {ver + 1}
               /\ ctx' = Respond(204, "", h \o <<Call("delete", 0), Call("cache.clear", 0)>>)
    /\ UNCHANGED <<callVars, now, rlVars, listVars, pc, loc, res, createdLog, updatedLog>>

\* The table after the inserts of sample items 1..n with identifiers f
RECURSIVE SeedInsert(_, _, _, _)
SeedInsert(st, f, n, t) ==
    IF n = 0 THEN st
    ELSE DbCreate(SeedInsert(st, f, n - 1, t),
                  StampCreate(BeforeCreate([ZeroItem EXCEPT !.name = SeedItems[n].name,
                                               !.stock = SeedItems[n].stock,
                                               !.price = SeedItems[n].price], f[n]), t))

\* ItemController.SeedDatabase: the service counts the items and, when there
\* is none, inserts the sample items; 200
ItemControllerSeedDatabase ==
    /\ Handles(RouteSeedDatabase)
    /\ LET h == <<Call("handler", 0), Call("count", 0)>>
       IN IF LiveIds(store) # {}
          THEN /\ ctx' = Respond(200, "", h)
               /\ UNCHANGED <<store, ver, modVers, done>>
          ELSE /\ \E f \in SeedIds(store, Len(SeedItems)) :
                    /\ store' = SeedInsert(store, f, Len(SeedItems), now)
                    /\ modVers' = [id \in DOMAIN modVers |->
                                      IF \E i \in 1..Len(SeedItems) : f[i] = id
                                      THEN modVers[id] \cup {ver + (CHOOSE i \in 1..Len(SeedItems) : f[i] = id)}
                                      ELSE modVers[id]]
               /\ ver' = ver + Len(SeedItems)
               /\ done' = done \cup ((ver + 1)..(ver + Len(SeedItems)))
               /\ ctx' = Respond(200, "", h \o [i \in 1..Len(SeedItems) |-> Call("create", 0)])
    /\ UNCHANGED <<callVars, now, rlVars, listVars, cache, pc, loc, res, delVers, createdLog, updatedLog>>

\* ------------------------------------------------------------------------
\* Cursor wire format (encodeCursor, decodeCursor), byte by byte
\* ------------------------------------------------------------------------

\* The US-ASCII code of a character
Ascii(c) ==
    CASE c = "\"" -> 34 [] c = "," -> 44 [] c = "-" -> 45 [] c = ":" -> 58
      [] c = "0" -> 48 [] c = "1" -> 49 [] c = "2" -> 50 [] c = "3" -> 51
      [] c = "4" -> 52 [] c = "5" -> 53 [] c = "6" -> 54 [] c = "7" -> 55
      [] c = "8" -> 56 [] c = "9" -> 57
      [] c = "D" -> 68 [] c = "I" -> 73 [] c = "T" -> 84 [] c = "Z" -> 90
      [] c = "\\" -> 92 [] c = "_" -> 95
      [] c = "a" -> 97 [] c = "c" -> 99 [] c = "d" -> 100 [] c = "e" -> 101
      [] c = "i" -> 105 [] c = "r" -> 114 [] c = "t" -> 116 [] c = "x" -> 120
      [] c = "{" -> 123 [] c = "}" -> 125

\* A Go string: its bytes
Bytes(cs) == [i \in 1..Len(cs) |-> Ascii(cs[i])]

\* The decimal digit of a number below ten
Digit(n) == <<"0", "1", "2", "3", "4", "5", "6", "7", "8", "9">>[n + 1]

\* GetItems, line 201: lastItem.ID.String(). The 36 characters of a UUID are
\* cut down to a group separator and one digit
UuidString(id) == Bytes(<<"0", "-", Digit(id)>>)

\* GetItems, line 202: lastItem.CreatedAt.Format(time.RFC3339Nano), cut down
\* to the time separator, one digit and the zone
FormatTime(t) == Bytes(<<"T", Digit(t), "Z">>)

\* The identifier and the timestamp a string is the form of, as the store
\* reads the arguments of the cursor predicate; BadString if it is none
ParseUuid(s) ==
    IF \E id \in 0..9 : UuidString(id) = s
    THEN CHOOSE id \in 0..9 : UuidString(id) = s
    ELSE BadString

ParseTime(s) ==
    IF \E t \in 0..9 : FormatTime(t) = s
    THEN CHOOSE t \in 0..9 : FormatTime(t) = s
    ELSE BadString

\* A string literal without escaping
EscapeByteNone(b) == <<b>>

\* encoding/json, string literal: the quote and the backslash are escaped
\* with a backslash (the strings here hold no control character, no <, >, &
\* and no byte that is not UTF-8)
EscapeByte(b) ==
    IF b = Ascii("\"") \/ b = Ascii("\\") THEN <<Ascii("\\"), b>> ELSE <<b>>

RECURSIVE JsonEscape(_)
JsonEscape(s) == IF Len(s) = 0 THEN <<>> ELSE EscapeByte(Head(s)) \o JsonEscape(Tail(s))

JsonString(s) == Bytes(<<"\"">>) \o JsonEscape(s) \o Bytes(<<"\"">>)

\* The JSON names of the fields of CursorData
IdField == Bytes(<<"i", "d">>)
CreatedAtField == Bytes(<<"c", "r", "e", "a", "t", "e", "d", "_", "a", "t">>)

\* json.Marshal(CursorData): {"id":"..","created_at":".."}
JsonMarshal(cd) ==
    Bytes(<<"{">>) \o JsonString(IdField) \o Bytes(<<":">>) \o JsonString(cd.id)
        \o Bytes(<<",">>) \o JsonString(CreatedAtField) \o Bytes(<<":">>)
        \o JsonString(cd.created_at) \o Bytes(<<"}">>)

\* The alphabet of base64.StdEncoding
Base64Chars ==
    <<"A", "B", "C", "D", "E", "F", "G", "H", "I", "J", "K", "L", "M", "N", "O", "P",
      "Q", "R", "S", "T", "U", "V", "W", "X", "Y", "Z", "a", "b", "c", "d", "e", "f",
      "g", "h", "i", "j", "k", "l", "m", "n", "o", "p", "q", "r", "s", "t", "u", "v",
      "w", "x", "y", "z", "0", "1", "2", "3", "4", "5", "6", "7", "8", "9", "+", "/">>

\* The place of a character in the alphabet, from 0; -1 outside of it
Base64Index(c) ==
    IF \E i \in 1..Len(Base64Chars) : Base64Chars[i] = c
    THEN (CHOOSE i \in 1..Len(Base64Chars) : Base64Chars[i] = c) - 1
    ELSE -1

\* base64.StdEncoding.EncodeToString: three bytes make four characters, and
\* the last group is padded with "="
RECURSIVE Base64Encode(_)
Base64Encode(b) ==
    LET n == Len(b)
        sextet(v, k) == Base64Chars[((v \div (64 ^ k)) % 64) + 1]
    IN IF n = 0 THEN <<>>
       ELSE IF n = 1
       THEN LET v == b[1] * 65536 IN <<sextet(v, 3), sextet(v, 2), "=", "=">>
       ELSE IF n = 2
       THEN LET v == b[1] * 65536 + b[2] * 256
            IN <<sextet(v, 3), sextet(v, 2), sextet(v, 1), "=">>
       ELSE LET v == b[1] * 65536 + b[2] * 256 + b[3]
            IN <<sextet(v, 3), sextet(v, 2), sextet(v, 1), sextet(v, 0)>>
                   \o Base64Encode(SubSeq(b, 4, n))

\* base64.StdEncoding.DecodeString: groups of four characters of the
\* alphabet, padding only at the end of the last group; the bits of the last
\* character that reach beyond the last byte are not looked at
RECURSIVE Base64Decode(_)
Base64Decode(t) ==
    LET n == Len(t)
        bad == [ok |-> FALSE, bytes |-> <<>>]
        ix(i) == Base64Index(t[i])
    IN IF n = 0 THEN [ok |-> TRUE, bytes |-> <<>>]
       ELSE IF n < 4 THEN bad
       ELSE IF ix(1) < 0 \/ ix(2) < 0 THEN bad
       ELSE IF t[3] = "="
       THEN IF n = 4 /\ t[4] = "="
            THEN [ok |-> TRUE, bytes |-> <<ix(1) * 4 + ix(2) \div 16>>]
            ELSE bad
       ELSE IF ix(3) < 0 THEN bad
       ELSE IF t[4] = "="
       THEN IF n = 4
            THEN [ok |-> TRUE, bytes |-> <<ix(1) * 4 + ix(2) \div 16,
                                           (ix(2) % 16) * 16 + ix(3) \div 4>>]
            ELSE bad
       ELSE IF ix(4) < 0 THEN bad
       ELSE LET rest == Base64Decode(SubSeq(t, 5, n))
            IN IF rest.ok
               THEN [ok |-> TRUE, bytes |-> <<ix(1) * 4 + ix(2) \div 16,
                                              (ix(2) % 16) * 16 + ix(3) \div 4,
                                              (ix(3) % 4) * 64 + ix(4)>> \o rest.bytes]
               ELSE bad

\* CursorData with both fields empty, and the result of a failed decoding
NoPair == [id |-> <<>>, created_at |-> <<>>]
NoDecoded == [ok |-> FALSE, id |-> <<>>, created_at |-> <<>>]

\* encoding/json matches the name of a member to a field without regard to
\* case
FoldByte(b) == IF b \in 65..90 THEN b + 32 ELSE b
Fold(s) == [i \in 1..Len(s) |-> FoldByte(s[i])]

\* A JSON string literal from the byte after its opening quote
RECURSIVE ScanString(_, _, _)
ScanString(t, i, acc) ==
    IF i > Len(t) THEN [ok |-> FALSE, val |-> <<>>, next |-> i]
    ELSE IF t[i] = Ascii("\"") THEN [ok |-> TRUE, val |-> acc, next |-> i + 1]
    ELSE IF t[i] = Ascii("\\")
    THEN IF i + 1 <= Len(t) /\ t[i + 1] \in {Ascii("\""), Ascii("\\")}
         THEN ScanString(t, i + 2, Append(acc, t[i + 1]))
         ELSE [ok |-> FALSE, val |-> <<>>, next |-> i]
    ELSE ScanString(t, i + 1, Append(acc, t[i]))

\* A JSON number (of digits only) from its first byte
RECURSIVE ScanNumber(_, _, _)
ScanNumber(t, i, seen) ==
    IF i <= Len(t) /\ t[i] \in 48..57 THEN ScanNumber(t, i + 1, TRUE)
    ELSE [ok |-> seen, val |-> <<>>, next |-> i]

\* The members of a JSON object from the first byte of a member, decoded
\* into cd: a string goes to the field its name matches, a member of no
\* field is skipped, a number for a field is a type error that Unmarshal
\* returns after the rest is decoded, the later of two members of one name
\* wins
RECURSIVE ParseMembers(_, _, _)
ParseMembers(t, i, cd) ==
    IF i > Len(t) \/ t[i] # Ascii("\"") THEN NoDecoded
    ELSE LET k == ScanString(t, i + 1, <<>>)
         IN IF ~k.ok \/ k.next + 1 > Len(t) \/ t[k.next] # Ascii(":") THEN NoDecoded
            ELSE LET j == k.next + 1
                     isString == t[j] = Ascii("\"")
                     v == IF isString THEN ScanString(t, j + 1, <<>>)
                          ELSE ScanNumber(t, j, FALSE)
                     name == Fold(k.val)
                     isField == name \in {IdField, CreatedAtField}
                     set == IF ~isString THEN cd
                            ELSE IF name = IdField THEN [cd EXCEPT !.id = v.val]
                            ELSE IF name = CreatedAtField
                            THEN [cd EXCEPT !.created_at = v.val]
                            ELSE cd
                     next == [set EXCEPT !.ok = cd.ok /\ (isField => isString)]
                 IN IF ~v.ok \/ v.next > Len(t) THEN NoDecoded
                    ELSE IF t[v.next] = Ascii(",") THEN ParseMembers(t, v.next + 1, next)
                    ELSE IF t[v.next] = Ascii("}") /\ v.next = Len(t)
                    THEN IF next.ok THEN next ELSE NoDecoded
                    ELSE NoDecoded

\* json.Unmarshal(data, &cursorData) for a text of objects, strings and
\* numbers: a member the object lacks leaves its field ""
JsonUnmarshal(t) ==
    IF Len(t) < 2 \/ t[1] # Ascii("{") THEN NoDecoded
    ELSE IF t[2] = Ascii("}")
    THEN IF Len(t) = 2 THEN [ok |-> TRUE, id |-> <<>>, created_at |-> <<>>] ELSE NoDecoded
    ELSE ParseMembers(t, 2, [ok |-> TRUE, id |-> <<>>, created_at |-> <<>>])

\* encodeCursor: json.Marshal, then base64
encodeCursor(cd) == Base64Encode(JsonMarshal(cd))

\* decodeCursor: base64 decoding, then json.Unmarshal; no field is looked at
decodeCursor(token) ==
    LET raw == Base64Decode(token)
    IN IF raw.ok THEN JsonUnmarshal(raw.bytes) ELSE NoDecoded

\* The token of the listing model that a wire token stands for
TokenOf(token) ==
    LET raw == Base64Decode(token)
        cd == JsonUnmarshal(raw.bytes)
    IN IF Len(token) = 0 THEN NoCursor
       ELSE IF ~raw.ok THEN NotBase64
       ELSE IF ~cd.ok THEN NotJSON
       ELSE EncodeCursor([id |-> ParseUuid(cd.id), created_at |-> ParseTime(cd.created_at)])

\* The strings a CursorData is made of: the forms of identifiers and of
\* timestamps, the empty string, and strings that need escaping
CursorIds == {UuidString(id) : id \in 1..3}
CursorTimes == {FormatTime(t) : t \in 1..3}
CursorStrings ==
    CursorIds \cup CursorTimes \cup {<<>>, Bytes(<<"\"">>), Bytes(<<"\\", "x">>)}
CursorPairs == [id : CursorStrings, created_at : CursorStrings]

\* The pairs of an identifier and a timestamp
WellFormedPairs == [id : CursorIds, created_at : CursorTimes]

\* A token with the unused bits of its last character changed
TamperPadding(token) ==
    LET last == CHOOSE i \in 1..Len(token) :
                    /\ token[i] # "="
                    /\ \A j \in (i + 1)..Len(token) : token[j] = "="
    IN [token EXCEPT ![last] = Base64Chars[Base64Index(token[last]) + 2]]

\* JSON texts that json.Marshal(CursorData) does not produce
ForeignTexts ==
    { Bytes(<<"{", "}">>),
      Bytes(<<"{">>) \o JsonString(IdField) \o Bytes(<<":">>) \o JsonString(UuidString(1))
          \o Bytes(<<"}">>),
      Bytes(<<"{">>) \o JsonString(CreatedAtField) \o Bytes(<<":">>)
          \o JsonString(FormatTime(1)) \o Bytes(<<"}">>),
      Bytes(<<"{">>) \o JsonString(Bytes(<<"I", "D">>)) \o Bytes(<<":">>)
          \o JsonString(UuidString(1)) \o Bytes(<<",">>) \o JsonString(CreatedAtField)
          \o Bytes(<<":">>) \o JsonString(FormatTime(1)) \o Bytes(<<"}">>),
      Bytes(<<"{">>) \o JsonString(IdField) \o Bytes(<<":", "1", ",">>)
          \o JsonString(CreatedAtField) \o Bytes(<<":">>) \o JsonString(FormatTime(1))
          \o Bytes(<<"}">>),
      Bytes(<<"{">>) \o JsonString(IdField) \o Bytes(<<":">>) \o JsonString(UuidString(1))
          \o Bytes(<<",">>) \o JsonString(Bytes(<<"x">>)) \o Bytes(<<":", "1", "}">>),
      Bytes(<<"x">>),
      Bytes(<<"{", "\"", "i", "d">>) }

\* The tokens a caller sends: the tokens of the service, tokens changed in
\* one place, the base64 of other texts, and strings that are no base64
WireTokens ==
    {encodeCursor(cd) : cd \in CursorPairs}
        \cup {TamperPadding(encodeCursor(cd)) : cd \in WellFormedPairs}
        \cup {Base64Encode(text) : text \in ForeignTexts}
        \cup {SubSeq(encodeCursor(cd), 1, 3) : cd \in WellFormedPairs}
        \cup {<<"!", "!", "!", "!">>}

\* No codec call has been made
NoCodec == [op |-> "none", cd |-> NoPair, token |-> <<>>, out |-> NoDecoded, page |-> NoPage]
CodecIdle == codec = NoCodec

\* encodeCursor(cd) is called
CodecEncode(cd) ==
    /\ codec.op = "none"
    /\ codec' = [NoCodec EXCEPT !.op = "encode", !.cd = cd, !.token = encodeCursor(cd)]
    /\ UNCHANGED <<now, rlVars, svcVars, listVars, httpVars, seed>>

\* decodeCursor is called on the token encodeCursor has returned
CodecDecodeEncoded ==
    /\ codec.op = "encode"
    /\ codec' = [codec EXCEPT !.op = "decode encoded", !.out = decodeCursor(codec.token)]
    /\ UNCHANGED <<now, rlVars, svcVars, listVars, httpVars, seed>>

\* decodeCursor is called on a token of the caller
CodecDecode(token) ==
    /\ codec.op = "none"
    /\ codec' = [NoCodec EXCEPT !.op = "decode", !.token = token, !.out = decodeCursor(token)]
    /\ UNCHANGED <<now, rlVars, svcVars, listVars, httpVars, seed>>

\* GetItems is called with a token of the caller as its cursor
CodecGetItems(token) ==
    /\ codec.op = "none"
    /\ \E tie \in Permutations(DOMAIN store) :
        codec' = [NoCodec EXCEPT !.op = "list", !.token = token,
                                 !.out = decodeCursor(token),
                                 !.page = GetItems(store, [cursor |-> TokenOf(token),
                                                           limit |-> 1],
                                                   NoFilter, NoSort, tie)]
    /\ UNCHANGED <<now, rlVars, svcVars, listVars, httpVars, seed>>

\* ------------------------------------------------------------------------
\* ItemService.SeedDatabase, step by step
\* ------------------------------------------------------------------------

\* SeedDatabase calls made in one behaviour
MaxSeedCalls == 2

\* The insertion tasks of a call: one goroutine for each sample item
SeedTasks == 1..Len(SeedItems)

\* A channel of errors with room for one error less than there are items
ErrorsCapShort(items) == Len(items) - 1

\* Line 235: make(chan error, len(sampleItems))
ErrorsCap(items) == Len(items)

\* A seeding that does not look at the count
SeedSkipsNever(count) == FALSE

\* Lines 217-219: if count > 0 { return nil }
SeedSkips(count) == count > 0

\* The locals of a SeedDatabase call and its goroutines: count, the loop
\* index, the state of each task, the WaitGroup's counter, the error channel
\* and whether it is closed, and what the call returns; for the claims, the
\* table at the start of the call, the number of the call, whether the count
\* failed, the tasks whose insert failed, and whether any store call of any
\* call so far has failed
NoSeedCall == [pc |-> "idle", count |-> 0, next |-> 1,
               task |-> [i \in SeedTasks |-> "none"], wg |-> 0, errors |-> <<>>,
               closed |-> FALSE, ret |-> "none", start |-> <<>>, calls |-> 0,
               countFailed |-> FALSE, failed |-> {}, sick |-> FALSE]
NoSeed == [p \in Procs |-> NoSeedCall]
SeedIdle == seed = NoSeed

\* SeedDatabase, lines 215-219: count the items (the error of the count is
\* not looked at, and a failed count leaves count 0); return nil when there
\* are any
SeedDatabase(p, fails) ==
    /\ seed[p].pc \in {"idle", "done"}
    /\ seed[p].calls < MaxSeedCalls
    /\ LET count == IF fails THEN 0 ELSE Cardinality(LiveIds(store))
           call == [NoSeedCall EXCEPT !.count = count, !.start = store,
                                      !.calls = seed[p].calls + 1,
                                      !.countFailed = fails,
                                      !.sick = seed[p].sick \/ fails]
       IN seed' = [seed EXCEPT ![p] = IF SeedSkips(count)
                                      THEN [call EXCEPT !.pc = "done", !.ret = "nil"]
                                      ELSE [call EXCEPT !.pc = "spawn"]]
    /\ res' = NoRes
    /\ UNCHANGED <<now, rlVars, listVars, httpVars, codec, store, cache, pc, loc, ver, modVers,
                   delVers, done, createdLog, updatedLog>>

\* Lines 237-245, one iteration of the loop: wg.Add(1) and go func(item)
SeedSpawn(p) ==
    /\ seed[p].pc = "spawn"
    /\ seed' = [seed EXCEPT ![p].wg = @ + 1,
                            ![p].task[seed[p].next] = "ready",
                            ![p].next = @ + 1,
                            ![p].pc = IF seed[p].next = Len(SeedItems) THEN "wait" ELSE "spawn"]
    /\ res' = NoRes
    /\ UNCHANGED <<now, rlVars, listVars, httpVars, codec, store, cache, pc, loc, ver, modVers,
                   delVers, done, createdLog, updatedLog>>

\* Line 241, in the goroutine of item i: s.db.Create(&item), which fails or
\* inserts the item under a new identifier
SeedTaskCreate(p, i, fails) ==
    /\ seed[p].task[i] = "ready"
    /\ IF fails
       THEN /\ seed' = [seed EXCEPT ![p].task[i] = "failed", ![p].failed = @ \cup {i},
                                    ![p].sick = TRUE]
            /\ UNCHANGED <<store, ver>>
       ELSE /\ \E newid \in NewUuids(store) :
                store' = DbCreate(store,
                                  StampCreate(BeforeCreate([ZeroItem EXCEPT
                                                  !.name = SeedItems[i].name,
                                                  !.stock = SeedItems[i].stock,
                                                  !.price = SeedItems[i].price], newid), now))
            /\ ver' = ver + 1
            /\ seed' = [seed EXCEPT ![p].task[i] = "created"]
    /\ res' = NoRes
    /\ UNCHANGED <<now, rlVars, listVars, httpVars, codec, cache, pc, loc, modVers, delVers,
                   done, createdLog, updatedLog>>

\* Line 242, in the goroutine of item i: errors <- err. The send waits while
\* the channel is full, and panics when the channel is closed
SeedTaskReport(p, i) ==
    /\ seed[p].task[i] = "failed"
    /\ seed[p].closed \/ Len(seed[p].errors) < ErrorsCap(SeedItems)
    /\ seed' = IF seed[p].closed
               THEN [seed EXCEPT ![p].task[i] = "panicked"]
               ELSE [seed EXCEPT ![p].task[i] = "reported", ![p].errors = Append(@, i)]
    /\ res' = NoRes
    /\ UNCHANGED <<now, rlVars, listVars, httpVars, codec, store, cache, pc, loc, ver, modVers,
                   delVers, done, createdLog, updatedLog>>

\* Line 240, as the goroutine of item i returns: wg.Done()
SeedTaskDone(p, i) ==
    /\ seed[p].task[i] \in {"created", "reported"}
    /\ seed' = [seed EXCEPT ![p].task[i] = "done", ![p].wg = @ - 1]
    /\ res' = NoRes
    /\ UNCHANGED <<now, rlVars, listVars, httpVars, codec, store, cache, pc, loc, ver, modVers,
                   delVers, done, createdLog, updatedLog>>

\* Line 247: wg.Wait() returns when the counter is zero
SeedWait(p) ==
    /\ seed[p].pc = "wait"
    /\ seed[p].wg = 0
    /\ seed' = [seed EXCEPT ![p].pc = "close"]
    /\ res' = NoRes
    /\ UNCHANGED <<now, rlVars, listVars, httpVars, codec, store, cache, pc, loc, ver, modVers,
                   delVers, done, createdLog, updatedLog>>

\* Line 248: close(errors)
SeedClose(p) ==
    /\ seed[p].pc = "close"
    /\ seed' = [seed EXCEPT ![p].closed = TRUE, ![p].pc = "drain"]
    /\ res' = NoRes
    /\ UNCHANGED <<now, rlVars, listVars, httpVars, codec, store, cache, pc, loc, ver, modVers,
                   delVers, done, createdLog, updatedLog>>

\* Lines 250-256: range over the channel; the first error is returned, nil
\* when the closed channel holds none
SeedDrain(p) ==
    /\ seed[p].pc = "drain"
    /\ seed[p].errors # <<>> \/ seed[p].closed
    /\ seed' = [seed EXCEPT ![p].pc = "done",
                            ![p].ret = IF seed[p].errors # <<>> THEN "error" ELSE "nil"]
    /\ res' = NoRes
    /\ UNCHANGED <<now, rlVars, listVars, httpVars, codec, store, cache, pc, loc, ver, modVers,
                   delVers, done, createdLog, updatedLog>>

\* The statements that the other operations of the service send to the
\* store, in their order, with the error each returns when the statement
\* fails (lines 67-68, 82-86, 96-100 and 113-114, 123-125, 165-166 and
\* 189-190, 324-334)
StoreStatements ==
    [create |-> <<"failed to create item">>,
     get |-> <<"failed to get item">>,
     update |-> <<"failed to get item", "failed to update item">>,
     delete |-> <<"failed to delete item">>,
     list |-> <<"failed to count items", "failed to get items">>,
     stats |-> <<"store error", "store error", "store error">>]

\* A call of one of these operations, made before any seeding, whose i-th
\* statement fails at the store (the statements before it are reads): the
\* call returns the error, and table and cache stay as they are
ServiceStoreFailure(p, op, i) ==
    /\ pc[p] = "idle"
    /\ seed = NoSeed
    /\ i \in 1..Len(StoreStatements[op])
    /\ res' = [NoRes EXCEPT !.kind = op, !.err = StoreStatements[op][i]]
    /\ UNCHANGED <<now, rlVars, listVars, httpVars, callVars, store, cache, pc, loc, ver,
                   modVers, delVers, done, createdLog, updatedLog>>

\* ------------------------------------------------------------------------
\* Specifications
\* ------------------------------------------------------------------------

\* No call of the item service has been made
CallsIdle ==
    /\ cache = EmptyCache
    /\ pc = [p \in Procs |-> "idle"]
    /\ loc = [p \in Procs |-> IdleLoc]
    /\ res = NoRes
    /\ ver = 0
    /\ modVers = [id \in AllIds |-> {}]
    /\ delVers = {}
    /\ done = {}
    /\ createdLog = <<>>
    /\ updatedLog = {}

\* The item service on an empty table
SvcIdle ==
    /\ store = [id \in AllIds |-> NoRow]
    /\ CallsIdle

\* No list call has been made
ListIdle ==
    /\ listReq = NoListReq
    /\ page = NoPage
    /\ visited = <<>>

\* No request has arrived
HttpIdle == ctx = NoCtx

RLIdle ==
    /\ limiters = [k \in Keys |-> NoLimiter]
    /\ rlpc = [p \in Procs |-> "idle"]
    /\ rlkey = [p \in Procs |-> "10.0.0.1"]
    /\ allowLog = [k \in Keys |-> <<>>]
    /\ ticker = NoTicker
    /\ made = [k \in Keys |-> 0]
    /\ allHeld = FALSE

\* NewRateLimiter(requestsPerSecond, burst)
InitRL ==
    /\ now = 1
    /\ rate \in 1..MaxRate
    /\ burst \in 0..MaxBurst
    /\ RLIdle
    /\ SvcIdle
    /\ ListIdle
    /\ HttpIdle
    /\ SeedIdle
    /\ CodecIdle

NextRL ==
    \/ \E p \in Procs, key \in Keys : GetLimiter(p, key)
    \/ \E p \in Procs : LimiterAllow(p)
    \/ TickRL

SpecRL == InitRL /\ [][NextRL]_vars

\* The limiter under the three concurrent callers of Allow on one key

InitAllow ==
    /\ now = 1
    /\ rate \in 1..MaxRate
    /\ burst \in 0..MaxBurst
    /\ limiters = [k \in Keys |-> NoLimiter]
    /\ rlpc = [p \in Callers |-> "idle"]
    /\ rlkey = [p \in Callers |-> "10.0.0.1"]
    /\ allowLog = [k \in Keys |-> <<>>]
    /\ ticker = NoTicker
    /\ made = [k \in Keys |-> 0]
    /\ allHeld = FALSE
    /\ SvcIdle
    /\ ListIdle
    /\ HttpIdle
    /\ SeedIdle
    /\ CodecIdle

NextAllow ==
    \/ \E p \in Callers : GetLimiter(p, UnseenKey)
    \/ \E p \in Callers : LimiterAllow(p)
    \/ TickRL

SpecAllow == InitAllow /\ [][NextAllow]_vars

\* The limiter with its cleanup goroutine running beside one caller of
\* Allow; one token per second, every burst size that admits a call
InitCleanup ==
    /\ InitRL
    /\ rate = 1
    /\ burst >= 1

NextCleanup ==
    \/ \E key \in Keys : GetLimiter("p1", key)
    \/ LimiterAllow("p1")
    \/ \E maxAge \in 1..MaxAge : CleanupOldLimiters(maxAge)
    \/ CleanupTick
    \/ CleanupUnlock
    \/ TickRL

SpecCleanup == InitCleanup /\ [][NextCleanup]_vars

\* NewItemServiceWithDB(db) on an empty table; the limiter is not involved
InitSvc ==
    /\ now = 1
    /\ rate = 1
    /\ burst = 1
    /\ RLIdle
    /\ SvcIdle
    /\ ListIdle
    /\ HttpIdle
    /\ SeedIdle
    /\ CodecIdle

\* Calls run one at a time, each to its end before the next starts
NextSeq ==
    \/ Step("p1", MaxMut, CreateReqs, UpdateReqs)
    \/ TickSvc

SpecSeq == InitSvc /\ [][NextSeq]_vars

\* NewItemServiceWithDB(db) when ristretto.NewCache fails: the service has no
\* cache
InitNoCache ==
    /\ now = 1
    /\ rate = 1
    /\ burst = 1
    /\ RLIdle
    /\ store = [id \in AllIds |-> NoRow]
    /\ cache = NilCache
    /\ pc = [p \in Procs |-> "idle"]
    /\ loc = [p \in Procs |-> IdleLoc]
    /\ res = NoRes
    /\ ver = 0
    /\ modVers = [id \in AllIds |-> {}]
    /\ delVers = {}
    /\ done = {}
    /\ createdLog = <<>>
    /\ updatedLog = {}
    /\ ListIdle
    /\ HttpIdle
    /\ SeedIdle
    /\ CodecIdle

SpecNoCache == InitNoCache /\ [][NextSeq]_vars

\* One sample item of SeedDatabase, as the table holds it
SampleItem == StoreRow(StampCreate(BeforeCreate([ZeroItem EXCEPT !.name = "a", !.stock = 5,
                                                                  !.price = 10], 1), 1))

\* The service after startup: SeedDatabase has filled the empty table (with
\* one sample item here), which is commit 1
InitConc ==
    /\ now = 1
    /\ rate = 1
    /\ burst = 1
    /\ RLIdle
    /\ store = [id \in AllIds |-> IF id = SampleItem.id THEN SampleItem ELSE NoRow]
    /\ cache = EmptyCache
    /\ pc = [p \in Procs |-> "idle"]
    /\ loc = [p \in Procs |-> IdleLoc]
    /\ res = NoRes
    /\ ver = 1
    /\ modVers = [id \in AllIds |-> IF id = SampleItem.id THEN {1} ELSE {}]
    /\ delVers = {}
    /\ done = {1}
    /\ createdLog = <<>>
    /\ updatedLog = {}
    /\ ListIdle
    /\ HttpIdle
    /\ SeedIdle
    /\ CodecIdle

\* Calls of concurrent callers interleave
NextConc ==
    \/ \E p \in Procs : Step(p, ConcMaxMut, ConcCreateReqs, ConcUpdateReqs)
    \/ TickSvc

SpecConc == InitConc /\ [][NextConc]_vars

\* As many CreateItem calls as there are callers run concurrently on an
\* empty table; a caller lists the items
NextCreate ==
    \/ \E p \in Procs, req \in CreateReqs : CreateItem(p, Cardinality(Procs), req)
    \/ \E p \in Procs : CreateInvalidate(p)
    \/ ListFirst(0, NoFilter, NoSort)
    \/ TickSvc

SpecCreate == InitSvc /\ [][NextCreate]_vars

\* The creation timestamps of the rows: a row shares the timestamp of the row
\* numbered before it (a tie) or has the next one. Identifiers are compared
\* only among rows of equal timestamp, so the rows are numbered by age here.
RECURSIVE StampsOf(_, _)
StampsOf(ties, id) ==
    IF id = 1 THEN 1
    ELSE StampsOf(ties, id - 1) + (IF id \in ties THEN 0 ELSE 1)

\* The tables of list traversals: every row is of one of the two kinds; the
\* first row may have been deleted
ListTables ==
    {[id \in ListIds |-> ListRow(id, kinds[id], StampsOf(ties, id),
                                  IF id = gone THEN MaxRows ELSE 0)] :
        kinds \in [ListIds -> ItemKinds], ties \in SUBSET (ListIds \ {1}),
        gone \in {NilId, 1}}

\* The item service holding such a table, which no call changes
InitList ==
    /\ now = MaxRows
    /\ rate = 1
    /\ burst = 1
    /\ RLIdle
    /\ store \in ListTables
    /\ CallsIdle
    /\ ListIdle
    /\ HttpIdle
    /\ SeedIdle
    /\ CodecIdle

NextList ==
    \/ \E limit \in 0..MaxLimit, filters \in FilterReqs, sort \in SortReqs :
        ListFirst(limit, filters, sort)
    \/ ListNext
    \/ \E token \in CursorTokens, limit \in 0..MaxLimit : ListAt(token, limit)

SpecList == InitList /\ [][NextList]_vars

\* The sort arguments a caller of the service passes: those the HTTP layer
\* lets through, and others
ServiceSorts ==
    SortReqs \cup {[sort_by |-> "name", sort_order |-> "invalid"],
                   [sort_by |-> "stock", sort_order |-> "DESC"],
                   [sort_by |-> "invalid_field", sort_order |-> "asc"],
                   [sort_by |-> "invalid_field", sort_order |-> "invalid"]}

\* ItemService.GetItems is called directly, for one page of every item
NextSort == \E sort \in ServiceSorts : ListFirst(0, NoFilter, sort)

SpecSort == InitList /\ [][NextSort]_vars

\* The tables behind the HTTP layer: the empty one, and one of two items
HttpTables ==
    {[id \in AllIds |-> NoRow],
     [id \in AllIds |-> IF id \in SvcIds
                        THEN ListRow(id, [name |-> SeedItems[id].name,
                                          stock |-> SeedItems[id].stock,
                                          price |-> SeedItems[id].price], id, 0)
                        ELSE NoRow]}

\* The cursors of list requests: none, the one of the newest row, a malformed
\* one
HttpCursors == {NoCursor, EncodeCursor([id |-> 2, created_at |-> 2]), NotBase64}

\* The parameters of query string q that are given
Given(q) == {f \in DOMAIN q : q[f] # NoQuery[f]}

\* The query strings of list requests: at most two parameters given
ListQueries ==
    {q \in [limit : {"", "0", "1", "100", "101", "-1", "abc"},
            cursor : HttpCursors,
            name : {"", "B", "_"},
            min_stock : {"", "10", "-1"},
            min_price : {""},
            max_price : {""},
            sort_by : {"", "name", "invalid_field"},
            sort_order : {"", "asc", "invalid"}] : Cardinality(Given(q)) <= 2}

\* What callers ask for: route, query string, path parameter, body
HttpTargets ==
    {[route |-> RouteGetItems, query |-> q, param |-> NoParam, body |-> NoBody] : q \in ListQueries}
    \cup {[route |-> r, query |-> NoQuery, param |-> NoParam, body |-> NoBody] :
            r \in {RouteGetItemStats, RouteSeedDatabase}}
    \cup {[route |-> RouteCreateItem, query |-> NoQuery, param |-> NoParam, body |-> b] :
            b \in {[name |-> "b", stock |-> 15, price |-> 15],
                   [name |-> "", stock |-> 15, price |-> 15]}}
    \cup {[route |-> r, query |-> NoQuery, param |-> p, body |-> NoBody] :
            r \in {RouteGetItem, RouteDeleteItem}, p \in {ParamOf(1), BadParam}}
    \cup {[route |-> RouteUpdateItem, query |-> NoQuery, param |-> ParamOf(1), body |-> b] :
            b \in {[name |-> NoName, stock |-> 25, price |-> NoInt],
                   [name |-> NoName, stock |-> -5, price |-> NoInt]}}

\* The requests: one caller sends all of them, the other asks only for the
\* statistics
HttpRequests ==
    {[ip |-> "10.0.0.1", target |-> t] : t \in HttpTargets}
    \cup {[ip |-> "10.0.0.2", target |-> t] :
            t \in {u \in HttpTargets : u.route = RouteGetItemStats}}

\* The server after startup (main): the limiter of the configuration, the
\* table, no request yet
InitHttp ==
    /\ now = 2
    /\ rate = 1
    /\ burst = MaxBurst
    /\ RLIdle
    /\ store \in HttpTables
    /\ CallsIdle
    /\ ListIdle
    /\ HttpIdle
    /\ SeedIdle
    /\ CodecIdle

\* Requests are served one at a time: the middleware, then the handler of
\* the route
NextHttp ==
    \/ \E r \in HttpRequests :
        Request(r.target.route, r.ip, r.target.query, r.target.param, r.target.body)
    \/ RateLimitMiddleware
    \/ ItemControllerGetItems
    \/ ItemControllerCreateItem
    \/ ItemControllerGetItemStats
    \/ ItemControllerSeedDatabase
    \/ ItemControllerGetItem
    \/ ItemControllerUpdateItem
    \/ ItemControllerDeleteItem

SpecHttp == InitHttp /\ [][NextHttp]_vars

\* The items that tables of statistics hold: stock below, at and above the
\* low-stock threshold
StatsKinds == {[name |-> "a", stock |-> 9, price |-> 10],
               [name |-> "b", stock |-> 10, price |-> 20],
               [name |-> "c", stock |-> 11, price |-> 40]}

\* The tables of statistics: a row is absent, live or soft-deleted
StatsTables ==
    [ListIds -> {NoRow} \cup {ListRow(0, k, 1, d) : k \in StatsKinds, d \in {0, 1}}]

\* The server holding such a table
InitStats ==
    /\ now = 2
    /\ rate = 1
    /\ burst \in 1..MaxBurst
    /\ RLIdle
    /\ \E t \in StatsTables :
        store = [id \in ListIds |-> IF t[id] = NoRow THEN NoRow ELSE [t[id] EXCEPT !.id = id]]
    /\ CallsIdle
    /\ ListIdle
    /\ HttpIdle
    /\ SeedIdle
    /\ CodecIdle

\* Callers ask for the statistics
NextStats ==
    \/ \E ip \in Keys : Request(RouteGetItemStats, ip, NoQuery, NoParam, NoBody)
    \/ RateLimitMiddleware
    \/ ItemControllerGetItemStats

SpecStats == InitStats /\ [][NextStats]_vars

\* The identifiers of the tables that are seeded: room for the items of
\* every call
SeedStoreIds == 0..(MaxSeedCalls * Len(SeedItems) + 1)

\* The tables a seeding meets: empty, holding one soft-deleted item, holding
\* one live item
SeedTables ==
    {[id \in SeedStoreIds |-> IF id = 1 THEN first ELSE NoRow] :
        first \in {NoRow, ListRow(1, SeedItems[1], 1, 0), ListRow(1, SeedItems[1], 1, 1)}}

\* The service on such a table; the store may fail any statement
InitSeed ==
    /\ now = 2
    /\ rate = 1
    /\ burst = 1
    /\ RLIdle
    /\ store \in SeedTables
    /\ CallsIdle
    /\ ListIdle
    /\ HttpIdle
    /\ SeedIdle
    /\ CodecIdle

\* The steps of a SeedDatabase call that is under way
SeedSteps(p) ==
    \/ SeedSpawn(p)
    \/ \E i \in SeedTasks, fails \in BOOLEAN : SeedTaskCreate(p, i, fails)
    \/ \E i \in SeedTasks : SeedTaskReport(p, i)
    \/ \E i \in SeedTasks : SeedTaskDone(p, i)
    \/ SeedWait(p)
    \/ SeedClose(p)
    \/ SeedDrain(p)

\* One caller seeds, call after call; calls of other operations fail at the
\* store
NextSeed ==
    \/ \E fails \in BOOLEAN : SeedDatabase("p1", fails)
    \/ SeedSpawn("p1")
    \/ \E i \in SeedTasks, fails \in BOOLEAN : SeedTaskCreate("p1", i, fails)
    \/ \E i \in SeedTasks : SeedTaskReport("p1", i)
    \/ \E i \in SeedTasks : SeedTaskDone("p1", i)
    \/ SeedWait("p1")
    \/ SeedClose("p1")
    \/ SeedDrain("p1")
    \/ \E op \in DOMAIN StoreStatements, i \in 1..3 : ServiceStoreFailure("p2", op, i)

SpecSeed == InitSeed /\ [][NextSeed]_vars

\* The Go scheduler runs every goroutine that can take a step, and the store
\* answers every statement: a call under way takes its next step
SpecSeedLive == SpecSeed /\ WF_vars(SeedSteps("p1"))

\* The first SeedDatabase call of a caller, against a store that answers
SeedFirst(p) ==
    /\ seed[p].calls = 0
    /\ SeedDatabase(p, FALSE)

\* Two callers seed once each, at the same time; the store answers every
\* statement
NextSeedPair ==
    \/ \E p \in Procs : SeedFirst(p)
    \/ \E p \in Procs : SeedSpawn(p)
    \/ \E p \in Procs, i \in SeedTasks : SeedTaskCreate(p, i, FALSE)
    \/ \E p \in Procs, i \in SeedTasks : SeedTaskDone(p, i)
    \/ \E p \in Procs : SeedWait(p)
    \/ \E p \in Procs : SeedClose(p)
    \/ \E p \in Procs : SeedDrain(p)

SpecSeedPair == InitSeed /\ [][NextSeedPair]_vars

\* Stats calls beside concurrent creates and deletes, query by query
NextStatsConc ==
    \/ \E p \in Procs : StatsCount(p)
    \/ \E p \in Procs : StatsSum(p)
    \/ \E p \in Procs : StatsLowStock(p)
    \/ \E p \in Procs, req \in ConcCreateReqs : CreateItem(p, ConcMaxMut, req)
    \/ \E p \in Procs : CreateInvalidate(p)
    \/ \E p \in Procs, id \in SvcIds : DeleteItem(p, ConcMaxMut, id)
    \/ \E p \in Procs : DeleteInvalidate(p)

SpecStatsConc == InitConc /\ [][NextStatsConc]_vars

\* One caller seeds, call after call; the store answers every count and
\* may fail any insert
NextSeedRetry ==
    \/ SeedDatabase("p1", FALSE)
    \/ SeedSteps("p1")

SpecSeedRetry == InitSeed /\ [][NextSeedRetry]_vars

\* Tables in which the first item is live and the second is absent, live or
\* soft-deleted
ItemTables ==
    {[id \in AllIds |-> IF id = 1 THEN ListRow(1, SeedItems[1], 1, 0)
                        ELSE IF id = 2 THEN second
                        ELSE NoRow] :
        second \in {NoRow, ListRow(2, SeedItems[2], 1, 0), ListRow(2, SeedItems[2], 1, 2)}}

\* The requests to the routes of one item
ItemTargets ==
    {[route |-> r, param |-> p, body |-> NoBody] :
        r \in {RouteGetItem, RouteDeleteItem}, p \in {ParamOf(1), ParamOf(2)}}
    \cup {[route |-> RouteUpdateItem, param |-> p,
           body |-> [name |-> NoName, stock |-> 25, price |-> NoInt]] :
            p \in {ParamOf(1), ParamOf(2)}}

\* The server holding such a table
InitItems ==
    /\ now = 2
    /\ rate = 1
    /\ burst = MaxBurst + 1
    /\ RLIdle
    /\ store \in ItemTables
    /\ CallsIdle
    /\ ListIdle
    /\ HttpIdle
    /\ SeedIdle
    /\ CodecIdle

\* Callers read, update and delete single items, one request at a time
NextItems ==
    \/ \E t \in ItemTargets, ip \in Keys : Request(t.route, ip, NoQuery, t.param, t.body)
    \/ RateLimitMiddleware
    \/ ItemControllerGetItem
    \/ ItemControllerUpdateItem
    \/ ItemControllerDeleteItem

SpecItems == InitItems /\ [][NextItems]_vars

\* The service on a table of two items; callers encode and decode cursors
InitCursor ==
    /\ now = 2
    /\ rate = 1
    /\ burst = 1
    /\ RLIdle
    /\ store \in HttpTables \ {[id \in AllIds |-> NoRow]}
    /\ CallsIdle
    /\ ListIdle
    /\ HttpIdle
    /\ SeedIdle
    /\ CodecIdle

NextCursor ==
    \/ \E cd \in CursorPairs : CodecEncode(cd)
    \/ CodecDecodeEncoded
    \/ \E token \in WireTokens : CodecDecode(token)
    \/ \E token \in WireTokens : CodecGetItems(token)

SpecCursor == InitCursor /\ [][NextCursor]_vars

\* ------------------------------------------------------------------------
\* Claims about the rate limiter
\* ------------------------------------------------------------------------

\* Less than one token has been refilled between the key's first call and
\* its i-th call
NoRefillYet(key, i) == (allowLog[key][i].t - allowLog[key][1].t) * rate < TicksPerSecond

\* C1: for every key and every burst size b >= 1, as long as no refill
\* interval has elapsed since the key's first call, the first b calls of
\* Allow(key) on a fresh limiter return true and every later call (call b+1
\* in particular) returns false.
C1_BurstThenReject ==
    burst >= 1 =>
        \A key \in Keys : \A i \in 1..Len(allowLog[key]) :
            NoRefillYet(key, i) => (allowLog[key][i].ok <=> i <= burst)

\* C1 witness: a key has made burst+1 calls in rapid succession with burst 2;
\* the first two were admitted and the third rejected.
C1_Witness ==
    /\ burst = 2
    /\ \E key \in Keys :
        /\ Len(allowLog[key]) = burst + 1
        /\ NoRefillYet(key, burst + 1)
        /\ allowLog[key][1].ok /\ allowLog[key][2].ok
        /\ ~allowLog[key][3].ok

\* ------------------------------------------------------------------------
\* Claims about listing
\* ------------------------------------------------------------------------

SeqSet(seq) == {seq[i] : i \in 1..Len(seq)}
NoDup(seq) == \A i, j \in 1..Len(seq) : i # j => seq[i] # seq[j]

\* The traversal runs under the default sort: no sort given, or the one the
\* handler fills in (created_at, desc)
DefaultSort ==
    \/ listReq.sort.sort_by = ""
    \/ listReq.sort.sort_by = "created_at" /\ listReq.sort.sort_order = "desc"

\* The rows that reads see have pairwise distinct creation timestamps
DistinctStamps ==
    \A x, y \in DOMAIN store :
        Live(store, x) /\ Live(store, y) /\ x # y => store[x].created_at # store[y].created_at

\* The rows the traversal has to visit, and those it has not visited yet
ToVisit == Matching(store, listReq.filters)
Unvisited == ToVisit \ SeqSet(visited)

\* C3: on a table whose rows have pairwise distinct creation timestamps,
\* under the default sort, a traversal by next_cursor with a fixed limit
\* returns matching rows only, none twice, in strictly descending creation
\* timestamp across pages; every row not returned yet lies strictly after the
\* rows returned; and has_more is false exactly when no row is left, so the
\* traversal ends having visited every matching row once.
C3_TraversalDistinctStamps ==
    listReq.traversal /\ page.ok /\ DefaultSort /\ DistinctStamps =>
        /\ NoDup(visited)
        /\ SeqSet(visited) \subseteq ToVisit
        /\ \A i, j \in 1..Len(visited) :
            i < j => store[visited[j]].created_at < store[visited[i]].created_at
        /\ \A id \in Unvisited : \A i \in 1..Len(visited) :
            store[id].created_at < store[visited[i]].created_at
        /\ page.has_more <=> Unvisited # {}

\* C3 witness: three rows of distinct timestamps, limit 2: the second call,
\* made with the cursor of a first page of two, returns the remaining row
\* with has_more = false.
C3_Witness ==
    /\ listReq.traversal /\ page.ok /\ DefaultSort /\ DistinctStamps
    /\ listReq.limit = 2
    /\ listReq.cursor # NoCursor
    /\ Len(visited) = 3 /\ Len(page.items) = 1
    /\ ~page.has_more

\* C4: under the default sort, also when rows share a creation timestamp, a
\* traversal by next_cursor returns no row twice and skips none: when it ends
\* (has_more = false) it has visited every matching row.
C4_TraversalWithTies ==
    listReq.traversal /\ page.ok /\ DefaultSort =>
        /\ NoDup(visited)
        /\ ~page.has_more => Unvisited = {}

\* The rows to visit differ pairwise in the column of the sort requested
DistinctSortKeys ==
    \A x, y \in ToVisit :
        x # y => \/ ColumnLess(store[x], store[y], listReq.sort.sort_by)
                 \/ ColumnLess(store[y], store[x], listReq.sort.sort_by)

\* C5: under any explicit sort, a traversal by next_cursor returns no row
\* twice and skips none: when it ends (has_more = false) it has visited every
\* matching row. (Stated for tables whose rows differ pairwise in the sort
\* column and in the creation timestamp: no tie is involved.)
C5_TraversalExplicitSort ==
    listReq.traversal /\ page.ok /\ listReq.sort.sort_by # ""
            /\ DistinctSortKeys /\ DistinctStamps =>
        /\ NoDup(visited)
        /\ ~page.has_more => Unvisited = {}

\* The rows matching the filters and the cursor position of the call:
\* without a cursor all matching rows, with one those strictly below it in
\* (creation timestamp, identifier)
AfterCursor ==
    LET cd == DecodeCursor(listReq.cursor)
    IN {id \in Matching(store, listReq.filters) :
            listReq.cursor # NoCursor =>
                \/ store[id].created_at < cd.created_at
                \/ store[id].created_at = cd.created_at /\ id < cd.id}

\* C6: for a limit in [1,100], a successful list call returns at most limit
\* items, and has_more is true if and only if at least limit+1 rows match the
\* filters and the cursor position.
C6_LimitAndHasMore ==
    page.ok /\ listReq.limit \in 1..100 =>
        /\ Len(page.items) <= listReq.limit
        /\ page.has_more <=> Cardinality(AfterCursor) >= listReq.limit + 1

\* C6 witness: a call with a filter, a cursor and limit 1 returns one item
\* and has_more = true.
C6_Witness ==
    /\ page.ok /\ listReq.limit = 1
    /\ listReq.filters # NoFilter /\ listReq.cursor # NoCursor
    /\ Len(page.items) = 1 /\ page.has_more

\* C7: in a successful list response next_cursor is non-empty if and only if
\* has_more is true, and then it decodes to the identifier and the creation
\* timestamp of the last item of the page.
C7_CursorIffHasMore ==
    page.ok =>
        /\ page.next_cursor # NoCursor <=> page.has_more
        /\ page.has_more =>
            LET cd == DecodeCursor(page.next_cursor)
                last == page.items[Len(page.items)]
            IN cd.ok /\ cd.id = last.id /\ cd.created_at = last.created_at

\* C7 witness: a page of two items with has_more = true, whose cursor is that
\* of the second item.
C7_Witness ==
    /\ page.ok /\ page.has_more /\ Len(page.items) = 2
    /\ page.items[1].id # page.items[2].id
    /\ DecodeCursor(page.next_cursor).id = page.items[2].id

\* ------------------------------------------------------------------------
\* Claims about the item service
\* ------------------------------------------------------------------------

\* The result r of a GetItem carries data older than a mutation whose call
\* had returned before the GetItem started: the data was fetched when fewer
\* commits had been made than that mutation's.
Stale(r) == \E v \in r.need : r.asof < v

\* C2, as stated: under every interleaving, a GetItem that starts after a
\* create, update or delete has returned never returns data fetched (and
\* cached) before that mutation.
C2_NoStaleRead == res.kind = "get" => ~Stale(res)

\* C2, amended: under every interleaving, a GetItem that starts after a
\* create, update or delete has returned returns data fetched after that
\* mutation committed, unless it is served from an entry that a racing
\* GetItem fetched before the commit and put after the mutation's clear.
C2_NoStaleReadButRaced == res.kind = "get" /\ ~(res.hit /\ res.raced) => ~Stale(res)

\* C2 witness: after the seeding and a further mutation have returned, a
\* GetItem is served from the cache, with an entry fetched after both.
C2_Witness ==
    /\ res.kind = "get" /\ res.ok /\ res.hit /\ ~res.raced
    /\ Cardinality(res.need) >= 2
    /\ ~Stale(res)

\* A successful DeleteItem of r's identifier had returned before the GetItem
\* of result r started
DeletedBefore(r) == delVers \cap modVers[r.id] \cap r.need # {}

\* C8: a GetItem(id) that starts after DeleteItem(id) has succeeded fails
\* with "item not found". (Reads served from an entry that a racing GetItem
\* put after the delete's clear are left aside here.)
C8_DeleteThenNotFound ==
    res.kind = "get" /\ DeletedBefore(res) /\ ~(res.hit /\ res.raced)
        => ~res.ok /\ res.err = "item not found"

\* The identifiers CreateItem has returned
CreatedIds == {createdLog[i].id : i \in 1..Len(createdLog)}

\* The request of the CreateItem that returned id
CreateReqOf(id) == createdLog[CHOOSE i \in 1..Len(createdLog) : createdLog[i].id = id].req

\* C9: every successful create returns a non-nil identifier that no other
\* item has, and a read of that identifier that follows the create (nothing
\* else has touched the item) returns the name, stock and price given to the
\* create.
C9_CreateThenRead ==
    /\ res.kind = "create" /\ res.ok =>
        /\ res.id # NilId
        /\ Cardinality(CreatedIds) = Len(createdLog)
    /\ res.kind = "get" /\ res.ok /\ res.id \in CreatedIds /\ Cardinality(modVers[res.id]) = 1 =>
        LET req == CreateReqOf(res.id)
        IN /\ res.item.name = req.name
           /\ res.item.stock = req.stock
           /\ res.item.price = req.price

\* C10: when UpdateItem returns successfully, each of name, stock and price
\* the table holds equals the requested value if the request sets the field
\* and the value before the update if it does not; the identifier and the
\* creation timestamp are those before the update.
C10_PartialUpdate ==
    res.kind = "update" /\ res.ok =>
        /\ res.after.name = IF res.req.name # NoName THEN res.req.name ELSE res.before.name
        /\ res.after.stock = IF res.req.stock # NoInt THEN res.req.stock ELSE res.before.stock
        /\ res.after.price = IF res.req.price # NoInt THEN res.req.price ELSE res.before.price
        /\ res.after.id = res.before.id
        /\ res.after.created_at = res.before.created_at

\* C11: an UpdateItem with no field set leaves the stored item as it was:
\* name, stock, price, creation timestamp and last-modified timestamp are the
\* same before and after the call.
C11_EmptyUpdateChangesNothing ==
    res.kind = "update" /\ res.ok /\ res.req = NoReq =>
        /\ res.after.name = res.before.name
        /\ res.after.stock = res.before.stock
        /\ res.after.price = res.before.price
        /\ res.after.created_at = res.before.created_at
        /\ res.after.updated_at = res.before.updated_at

\* ------------------------------------------------------------------------
\* Further claims about the rate limiter
\* ------------------------------------------------------------------------

\* A bucket as the limiter's settings prescribe it for a key never seen: the
\* process-wide rate and burst, and burst tokens
FullBucket == [limit |-> rate, burst |-> burst, tokens |-> burst * TicksPerSecond, last |-> 0]

\* The bucket of key after its first i calls, computed from the times of the
\* key's own calls alone
RECURSIVE ReplayBucket(_, _)
ReplayBucket(key, i) ==
    IF i = 0 THEN FullBucket
    ELSE AllowTake(ReplayBucket(key, i - 1), allowLog[key][i].t)

\* C17: each key has its own bucket, created on the key's first Allow call
\* with full burst capacity and the process-wide rate and burst; the results
\* of the key's calls are those its own calls determine, whatever calls are
\* made on other keys in between.
C17_PerKeyBucket ==
    \A key \in Keys :
        /\ (limiters[key] = NoLimiter) <=> (CallsOn(key) = 0)
        /\ \A i \in 1..Len(allowLog[key]) :
              allowLog[key][i].ok = AllowOk(ReplayBucket(key, i - 1), allowLog[key][i].t)
        /\ limiters[key] # NoLimiter =>
              limiters[key] = ReplayBucket(key, Len(allowLog[key]))

\* C17 witness: one key has been admitted and then rejected while the other
\* key, with calls of its own, has only been admitted.
C17_Witness ==
    \E k1, k2 \in Keys :
        /\ k1 # k2
        /\ Len(allowLog[k1]) >= 2 /\ allowLog[k1][1].ok /\ ~allowLog[k1][2].ok
        /\ Len(allowLog[k2]) >= 1
        /\ \A i \in 1..Len(allowLog[k2]) : allowLog[k2][i].ok

\* Calls on key admitted at time t
AdmittedAt(key, t) == {i \in 1..Len(allowLog[key]) : allowLog[key][i].ok /\ allowLog[key][i].t = t}

\* The call on key finishing in this step was rejected
RejectedNow(key) ==
    /\ Len(allowLog'[key]) = Len(allowLog[key]) + 1
    /\ ~allowLog'[key][Len(allowLog'[key])].ok

\* C18: in every reachable state and for every key the bucket's token count
\* stays within 0..burst, the refill computed from the elapsed time is capped
\* at burst, at most burst calls are admitted without time elapsing, and a
\* rejected Allow leaves the bucket as it was.
C18_TokensWithinBurst ==
    /\ [](\A key \in Keys : limiters[key] # NoLimiter =>
            /\ limiters[key].tokens \in 0..(burst * TicksPerSecond)
            /\ Advance(limiters[key], now) <= burst * TicksPerSecond
            /\ \A t \in 1..MaxTime : Cardinality(AdmittedAt(key, t)) <= burst)
    /\ [][\A key \in Keys : RejectedNow(key) => limiters'[key] = limiters[key]]_vars

\* C18 witness: a bucket that was drained and rejected a call has been idle
\* for longer than it takes to refill it, so that the cap applies.
C18_Witness ==
    \E key \in Keys :
        /\ burst >= 1
        /\ limiters[key] # NoLimiter
        /\ \E i \in 1..Len(allowLog[key]) : ~allowLog[key][i].ok
        /\ limiters[key].tokens + (now - limiters[key].last) * limiters[key].limit > burst * TicksPerSecond

\* ------------------------------------------------------------------------
\* Claims about the HTTP layer
\* ------------------------------------------------------------------------

\* The request has been answered
Answered == ctx.stage = "done"

\* The admission check of the request granted it
Admitted == Len(ctx.calls) >= 1 /\ ctx.calls[1] = Call("allow", 1)

\* A list request that the admission check granted has been answered
ListAnswered == Answered /\ ctx.route = RouteGetItems /\ Admitted

\* The statements sent to the store for the request
StoreCalls == {i \in 1..Len(ctx.calls) : ctx.calls[i].op \in StoreOps}

\* The request's sort parameters are outside the permitted values
SortOutside ==
    \/ ctx.query.sort_by \notin {"", "name", "stock", "price", "created_at"}
    \/ ctx.query.sort_order \notin {"", "asc", "desc"}

\* The request's limit is a number within 0..100, its filters are numbers
\* that are not negative
LimitWellFormed == ParseInt(ctx.query.limit).ok /\ ParseInt(ctx.query.limit).val \in 0..100
FiltersWellFormed ==
    \A f \in {"min_stock", "min_price", "max_price"} :
        ctx.query[f] # "" => ParseInt(ctx.query[f]).ok /\ ParseInt(ctx.query[f]).val >= 0

\* C12 as stated: a list request whose sort_by is outside {name, stock,
\* price, created_at} or whose sort_order is outside {asc, desc} is answered
\* with HTTP 400 'Invalid sort parameters' and no store query is issued for
\* it.
C12_InvalidSortRejected ==
    ListAnswered /\ SortOutside =>
        /\ ctx.status = 400
        /\ ctx.error = "Invalid sort parameters"
        /\ StoreCalls = {}

\* C12 amended: such a request is answered with HTTP 400 and no store query
\* is issued for it; the error is 'Invalid sort parameters' when the limit
\* and the filters of the request are well formed, and names the pagination
\* or the filter parameters, which are checked first, when they are not.
C12_InvalidSortRejectedInOrder ==
    ListAnswered /\ SortOutside =>
        /\ ctx.status = 400
        /\ StoreCalls = {}
        /\ ctx.error = IF ~LimitWellFormed THEN "Invalid pagination parameters"
                       ELSE IF ~FiltersWellFormed THEN "Invalid filter parameters"
                       ELSE "Invalid sort parameters"

\* C12 witness: a request with an unknown sort order and nothing else wrong
\* has been answered with 'Invalid sort parameters'.
C12_Witness ==
    /\ ListAnswered
    /\ ctx.query.sort_order = "invalid"
    /\ ctx.query.sort_by = "name"
    /\ ctx.error = "Invalid sort parameters"

\* The limit the request asks for, and the limit it is served with
AskedLimit == ParseInt(ctx.query.limit).val
ServedLimit == IF AskedLimit = 0 THEN 10 ELSE AskedLimit

\* C13: limit 0 (or absent) is treated as 10, a limit in 1..100 is used as
\* given (the row query asks for one row more than the limit, the page holds
\* at most limit items), and a negative limit or one above 100 is rejected
\* with a validation error and no query.
C13_LimitDefaultRangeReject ==
    ListAnswered /\ ParseInt(ctx.query.limit).ok =>
        IF AskedLimit \in 0..100
        THEN /\ ctx.error # "Invalid pagination parameters"
             /\ \A i \in 1..Len(ctx.calls) :
                    ctx.calls[i].op = "find" => ctx.calls[i].arg = ServedLimit + 1
             /\ ctx.status = 200 =>
                    /\ \E i \in 1..Len(ctx.calls) : ctx.calls[i].op = "find"
                    /\ Len(ctx.page.items) <= ServedLimit
        ELSE /\ ctx.status = 400
             /\ ctx.error = "Invalid pagination parameters"
             /\ StoreCalls = {}

\* C13 witness: a request with limit=0 has been served as one with limit 10,
\* and returned both rows of the table.
C13_Witness ==
    /\ ListAnswered
    /\ ctx.query.limit = "0"
    /\ ctx.status = 200
    /\ Call("find", 11) \in {ctx.calls[i] : i \in 1..Len(ctx.calls)}
    /\ Len(ctx.page.items) = 2

\* The request's cursor is given and cannot be decoded
CursorMalformed == ctx.query.cursor # NoCursor /\ ~DecodeCursor(ctx.query.cursor).ok

\* C14: a list request with an invalid or undecodable cursor fails, does not
\* return a page, and the failure is reported as bad input (HTTP 400), not as
\* an internal failure (HTTP 500).
C14_InvalidCursorIsBadInput ==
    ListAnswered /\ CursorMalformed =>
        /\ ~ctx.page.ok
        /\ ctx.status = 400

\* The request ended in a validation failure: a malformed limit, sort,
\* filter or cursor
ValidationFailure ==
    \/ ~ParseInt(ctx.query.limit).ok
    \/ ~LimitWellFormed
    \/ ~FiltersWellFormed
    \/ SortOutside
    \/ CursorMalformed

\* C15: a list request that ends in a validation failure has issued no count
\* and no row query.
C15_ValidationBeforeStore ==
    ListAnswered /\ ValidationFailure => StoreCalls = {}

\* The calls made for the request after the admission check
AfterAdmission == {i \in 2..Len(ctx.calls) : TRUE}

\* The admission check of this step rejects the request
RejectedStep == ctx.stage = "middleware" /\ ctx'.status = 429

\* C16: for every request to a route of the group the admission check runs
\* first and once; when it rejects, the response is 429 at once, no handler,
\* cache or store call is made and table and cache stay as they were; when it
\* grants, the route's handler runs next.
C16_AdmissionBeforeHandler ==
    /\ [](/\ ctx.stage # "none" => ctx.route \in InventoryRoutes
          /\ ctx.stage = "middleware" => ctx.calls = <<>>
          /\ ctx.stage \in {"handler", "done"} =>
                /\ ctx.calls[1].op = "allow"
                /\ \A i \in AfterAdmission : ctx.calls[i].op # "allow"
          /\ ctx.stage = "handler" => ctx.calls = <<Call("allow", 1)>>
          /\ Answered /\ ctx.calls[1] = Call("allow", 0) =>
                ctx.status = 429 /\ ctx.calls = <<Call("allow", 0)>>
          /\ Answered /\ ctx.calls[1] = Call("allow", 1) =>
                ctx.status # 429 /\ Len(ctx.calls) >= 2 /\ ctx.calls[2] = Call("handler", 0))
    /\ [][RejectedStep => ctx'.stage = "done" /\ UNCHANGED <<store, cache>>]_vars

\* C16 witness: a delete request of a caller whose bucket is empty has been
\* answered with 429 while the row it names is live.
C16_Witness ==
    /\ Answered
    /\ ctx.route = RouteDeleteItem
    /\ ctx.status = 429
    /\ ctx.param.uuid /\ Live(store, ctx.param.id)

\* The characters cs contain the characters qs in a row
Contains(cs, qs) == \E i \in 0..(Len(cs) - Len(qs)) : SubSeq(cs, i + 1, i + Len(qs)) = qs

\* The row satisfies every filter the request supplies: its name contains the
\* given text, case-insensitively; its stock and price are within the bounds
Satisfies(row, q) ==
    /\ Contains(LowerSeq(Chars(row.name)), LowerSeq(Chars(q.name)))
    /\ q.min_stock # "" => row.stock >= ParseInt(q.min_stock).val
    /\ q.min_price # "" => row.price >= ParsePrice(q.min_price).val
    /\ q.max_price # "" => row.price <= ParsePrice(q.max_price).val

\* C19: on a static dataset a list returns only rows that satisfy every
\* supplied filter at once, and total is the number of live rows that satisfy
\* them, whatever the limit and the cursor.
C19_FiltersAndTotal ==
    ListAnswered /\ ctx.status = 200 =>
        /\ \A i \in 1..Len(ctx.page.items) : Satisfies(ctx.page.items[i], ctx.query)
        /\ ctx.page.total = Cardinality({id \in LiveIds(store) : Satisfies(store[id], ctx.query)})

\* ------------------------------------------------------------------------
\* Claims about the statistics
\* ------------------------------------------------------------------------

\* The sum of the values of function f over the set ids
RECURSIVE SumOver(_, _)
SumOver(f, ids) ==
    IF ids = {} THEN 0
    ELSE LET id == CHOOSE x \in ids : TRUE IN f[id] + SumOver(f, ids \ {id})

\* The items of the collection: the rows that are not soft-deleted
Items == {id \in DOMAIN store : store[id] # NoRow /\ store[id].deleted_at = 0}

\* x, counted in 1/AvgScale, is the quotient sum / n to the precision it is
\* kept at: no multiple of 1/AvgScale is nearer to the quotient
IsMean(x, sum, n) ==
    LET diff == x * n - sum * AvgScale
    IN 2 * (IF diff < 0 THEN -diff ELSE diff) <= n

C28_CursorRoundTrip ==
    /\ codec.op \in {"encode", "decode encoded"} =>
           /\ codec.token = encodeCursor(codec.cd)
           /\ \A cd \in CursorPairs : encodeCursor(cd) = codec.token => cd = codec.cd
    /\ codec.op = "decode encoded" =>
           /\ codec.out.ok
           /\ codec.out.id = codec.cd.id
           /\ codec.out.created_at = codec.cd.created_at

\* A pair whose strings need escaping has been encoded and decoded
C28_Witness ==
    /\ codec.op = "decode encoded"
    /\ codec.cd.id = Bytes(<<"\"">>)
    /\ codec.cd.created_at = Bytes(<<"\\", "x">>)
    /\ codec.out.ok

\* The token is what encodeCursor returns for an identifier and a timestamp
IsCursorOfPair(token) == \E cd \in WellFormedPairs : encodeCursor(cd) = token

\* C29: a token that is not the encoding of an (identifier, timestamp) pair
\* is rejected by decodeCursor, and a list call given it fails
C29_ForeignTokenRejected ==
    (codec.op \in {"decode", "list"} /\ Len(codec.token) > 0 /\ ~IsCursorOfPair(codec.token))
        => /\ ~codec.out.ok
           /\ codec.op = "list" => ~codec.page.ok

\* ------------------------------------------------------------------------
\* Claims about the service's own validation
\* ------------------------------------------------------------------------

\* C30: ItemService.GetItems given a sort field outside {name, stock, price,
\* created_at} or a sort direction outside {asc, desc} fails with a
\* validation error: it returns no page, and the failure is not one of the
\* store
C30_ServiceValidatesSort ==
    (/\ listReq.traversal
     /\ listReq.sort.sort_by # ""
     /\ \/ listReq.sort.sort_by \notin {"name", "stock", "price", "created_at"}
        \/ listReq.sort.sort_order \notin {"asc", "desc"})
        => ~page.ok /\ page.err # "failed to get items"

\* ------------------------------------------------------------------------
\* Claims about the service without a cache
\* ------------------------------------------------------------------------

\* C27: a service whose cache could not be constructed never gets one: no
\* read is served from a cache, every read returns the row the store holds
\* (or "item not found" when the store holds no live row), no mutation
\* touches a cache, and no call fails for another reason than a missing row
\* (GetItems and GetItemStats use no cache in either case)
C27_ServiceWithoutCache ==
    /\ cache = NilCache
    /\ ~res.hit
    /\ res.err \in {"", "item not found"}
    /\ res.err = "item not found" => ~Live(store, res.id)
    /\ (res.kind = "get" /\ res.ok) => Live(store, res.id) /\ res.item = store[res.id]
    /\ (res.kind \in {"create", "update"} /\ res.ok) => Live(store, res.id)
    /\ (res.kind = "delete" /\ res.ok) => store[res.id] # NoRow /\ ~Live(store, res.id)

\* Without a cache an item has been read after it was updated, and an item
\* read before has been deleted
C27_Witness ==
    /\ cache = NilCache
    /\ res.kind = "get"
    /\ res.ok
    /\ ver = MaxMut
    /\ \E v \in modVers[res.id] : v > 1

\* ------------------------------------------------------------------------
\* Claims about missing items
\* ------------------------------------------------------------------------

\* The handler about to run is UpdateItem or DeleteItem with a well-formed
\* request for an identifier that has no live row
MissingTarget ==
    /\ ctx.stage = "handler"
    /\ ctx.route \in {RouteUpdateItem, RouteDeleteItem}
    /\ ctx.param.uuid
    /\ ctx.route = RouteUpdateItem => BindUpdate(ctx.body)
    /\ ~Live(store, ctx.param.id)

\* C25: UpdateItem and DeleteItem for an identifier without a live row answer
\* 404 "Item not found", and a request answered so leaves the table and the
\* cache as they were and clears no cache
C25_NotFoundChangesNothing ==
    [][/\ MissingTarget => ctx'.status = 404 /\ ctx'.error = "Item not found"
       /\ (ctx.stage = "handler" /\ ctx'.status = 404) =>
              /\ UNCHANGED <<store, cache, ver>>
              /\ \A i \in 1..Len(ctx'.calls) :
                    ctx'.calls[i].op \notin {"save", "cache.clear", "cache.set"}]_vars

\* An update of a soft-deleted item has been answered 404 while the cache
\* held another item
C25_Witness ==
    /\ ctx.stage = "done"
    /\ ctx.route = RouteUpdateItem
    /\ ctx.status = 404
    /\ store[ctx.param.id] # NoRow
    /\ \E id \in AllIds : cache[id] # NoEntry

\* ------------------------------------------------------------------------
\* Claims about deleted items
\* ------------------------------------------------------------------------

\* The items that a DeleteItem has deleted, and those whose DeleteItem had
\* returned when the call returning now started
DeletedIds == {id \in SvcIds : modVers[id] \cap delVers # {}}
DeleteReturnedBefore(need) == {id \in SvcIds : modVers[id] \cap delVers \cap need # {}}

\* C24: an item that has been deleted keeps its row, with a deletion
\* timestamp; the list and its total and the four aggregates are those of
\* the table without the row; and a GetItem that starts after the delete has
\* returned does not return the item
C24_DeletedStaysDeleted ==
    /\ \A id \in DeletedIds :
        /\ store[id] # NoRow
        /\ store[id].deleted_at # 0
        /\ id \notin Matching(store, NoFilter)
        /\ GetItemStats(store) = GetItemStats([store EXCEPT ![id] = NoRow])
    /\ (res.kind = "get" /\ res.id \in DeleteReturnedBefore(res.need)) => ~res.ok

\* ------------------------------------------------------------------------
\* Claims about concurrent creates
\* ------------------------------------------------------------------------

\* The identifiers of the CreateItem calls that have returned
ReturnedIds == {createdLog[i].id : i \in 1..Len(createdLog)}

\* C23: concurrent CreateItem calls all succeed; the items they return have
\* pairwise distinct identifiers; every insert made is a row of its own
\* with the name and stock of its request; and a list made after calls have
\* returned holds the item of each of them
C23_ConcurrentCreates ==
    /\ [](/\ res.kind = "create" => res.ok
          /\ Cardinality(ReturnedIds) = Len(createdLog)
          /\ Cardinality(LiveIds(store)) = ver
          /\ \A i \in 1..Len(createdLog) :
                /\ Live(store, createdLog[i].id)
                /\ store[createdLog[i].id].name = createdLog[i].req.name
                /\ store[createdLog[i].id].stock = createdLog[i].req.stock)
    /\ [][page' # page =>
             /\ page'.ok
             /\ page'.total >= Len(createdLog)
             /\ \A id \in ReturnedIds : \E i \in 1..Len(page'.items) : page'.items[i].id = id]_vars

\* Two calls have interleaved (the one that inserted second returned first)
\* and the list made after both returned holds both items
C23_Witness ==
    /\ Len(createdLog) = Cardinality(Procs)
    /\ modVers[createdLog[1].id] = {2}
    /\ page.ok
    /\ Len(page.items) = Cardinality(Procs)

\* ------------------------------------------------------------------------
\* Claims about seeding
\* ------------------------------------------------------------------------

\* The live rows of the table are the sample items, each once
IsCatalog(st) ==
    \E f \in [SeedTasks -> LiveIds(st)] :
        /\ \A id \in LiveIds(st) : \E i \in SeedTasks : f[i] = id
        /\ \A i, j \in SeedTasks : f[i] = f[j] => i = j
        /\ \A i \in SeedTasks :
            /\ st[f[i]].name = SeedItems[i].name
            /\ st[f[i]].stock = SeedItems[i].stock
            /\ st[f[i]].price = SeedItems[i].price

\* C21: while no store call fails, a SeedDatabase call returns nil; on a
\* table with live items it leaves the table as it was; on a table without
\* live items it leaves exactly the sample items live; and the second of two
\* calls leaves the table as the first left it
C21_SeedOnce ==
    LET call == seed["p1"]
    IN (call.pc = "done" /\ ~call.sick) =>
          /\ call.ret = "nil"
          /\ LiveIds(call.start) # {} => store = call.start
          /\ LiveIds(call.start) = {} => IsCatalog(store)
          /\ call.calls = MaxSeedCalls => store = call.start

\* The second call has returned, after a first one that filled a table
\* without live items
C21_Witness ==
    /\ seed["p1"].pc = "done"
    /\ ~seed["p1"].sick
    /\ seed["p1"].calls = MaxSeedCalls
    /\ IsCatalog(store)
    /\ store = seed["p1"].start

\* What holds of a SeedDatabase call at every moment
SeedCallSafe(call) ==
    /\ call.pc = "done" =>
          /\ \A i \in SeedTasks : call.task[i] = IF call.count > 0 THEN "none" ELSE "done"
          /\ call.ret = "error" <=> call.failed # {}
          /\ call.ret = "nil" <=> call.failed = {}
    /\ \A i \in SeedTasks :
          /\ call.task[i] # "panicked"
          /\ call.task[i] = "failed" =>
                ~call.closed /\ Len(call.errors) < ErrorsCap(SeedItems)
          /\ call.closed => call.task[i] = "done"

\* C22: a SeedDatabase call that finds no item returns, and does so only
\* when every insertion task has finished; it returns an error exactly when
\* an insert failed; a task that reports its error finds room in the channel
\* and the channel open; and the channel is closed only when every task has
\* finished
C22_SeedReturns ==
    /\ []SeedCallSafe(seed["p1"])
    /\ (seed["p1"].pc \notin {"idle", "done"}) ~> (seed["p1"].pc = "done")

\* Every insert of a call has failed and the call has returned the error
C22_Witness ==
    /\ seed["p1"].pc = "done"
    /\ seed["p1"].ret = "error"
    /\ seed["p1"].failed = SeedTasks
    /\ Len(seed["p1"].errors) = ErrorsCap(SeedItems)

\* C26: an operation that meets a failure of the store returns an error:
\* create, read, update, delete, list and stats, and SeedDatabase both for
\* its count and for its inserts
C26_StoreFailureReturned ==
    /\ res.kind \in DOMAIN StoreStatements => ~res.ok /\ res.err # ""
    /\ (seed["p1"].pc = "done" /\ (seed["p1"].countFailed \/ seed["p1"].failed # {}))
          => seed["p1"].ret = "error"

\* ------------------------------------------------------------------------
\* Claims about the limiter under concurrency and cleanup
\* ------------------------------------------------------------------------

\* The calls on key that returned true
AllowedCalls(key) == {i \in 1..Len(allowLog[key]) : allowLog[key][i].ok}

\* No refill interval has elapsed between the key's first call and any of
\* its calls
NoRefillOn(key) == \A i \in 1..Len(allowLog[key]) : NoRefillYet(key, i)

\* C31: when N callers invoke Allow concurrently on the same previously
\* unseen key, exactly one bucket is created for the key and all N calls
\* consume from it: with burst b and no refill elapsing, exactly min(N, b)
\* of the calls return true, under every interleaving.
C31_OneBucketUnderConcurrency ==
    \A key \in Keys :
        /\ made[key] = IF CallsOn(key) > 0 THEN 1 ELSE 0
        /\ NoRefillOn(key) =>
              Cardinality(AllowedCalls(key)) = Min(Len(allowLog[key]), burst)

\* C31 witness: three callers held the bucket of one unseen key at the same
\* time, nobody called on the other key, all three calls have returned with
\* no refill in between, burst is 2 and exactly two of them returned true.
C31_Witness ==
    /\ burst = 2
    /\ allHeld
    /\ \E key \in Keys :
        /\ \A other \in Keys \ {key} : CallsOn(other) = 0
        /\ Len(allowLog[key]) = Cardinality(Callers)
        /\ NoRefillOn(key)
        /\ made[key] = 1
        /\ Cardinality(AllowedCalls(key)) = 2

\* A step that leaves the bucket lim of a key as it is or takes a token
\* from it
SameBucket(lim, after) == after = lim \/ after = AllowTake(lim, now)

\* C32: the limiter's key set only grows: once a key has a bucket, that
\* same bucket stays in the map under any sequence of Allow calls and any
\* number of cleanup ticks; cleanup removes no entry and resets no bucket.
C32_KeySetOnlyGrows ==
    [][\A key \in Keys : Exists(limiters, key) =>
          /\ Exists(limiters', key)
          /\ made'[key] = made[key]
          /\ SameBucket(limiters[key], limiters'[key])
          /\ ticker'.ticks > ticker.ticks => limiters'[key] = limiters[key]]_vars

\* C32 witness: the cleanup goroutine has run twice, its last sweep ranged
\* over the buckets of both keys, and both buckets are still in the map,
\* one of them with a token taken and a call rejected.
C32_Witness ==
    /\ ticker.ticks >= 2
    /\ ticker.swept = Cardinality(Keys)
    /\ \A key \in Keys : Exists(limiters, key) /\ made[key] = 1
    /\ \E key \in Keys :
        /\ limiters[key].tokens < burst * TicksPerSecond
        /\ \E i \in 1..Len(allowLog[key]) : ~allowLog[key][i].ok

\* ------------------------------------------------------------------------
\* Claims about the item service under concurrency
\* ------------------------------------------------------------------------

\* The result r of a GetItem was served from an entry that a racing read
\* had fetched before a mutation committed and put after its clear
ServedRaced(r) == r.kind = "get" /\ r.ok /\ r.hit /\ r.raced

\* C33: a stale entry left by a cache put that raced with a mutation's clear
\* is served by GetItem only until its TTL expires or the next create,
\* update or delete clears the cache: when it is served, no more than the
\* TTL has passed since the put and no clear has been made since the put.
C33_StaleUntilTtlOrClear ==
    ServedRaced(res) =>
        /\ now <= res.exp
        /\ res.exp - CacheTTL <= now
        /\ res.clears = Cardinality(done)

\* C33 witness: a GetItem that started after a mutation had returned is
\* served the row as it was before that mutation, from an entry put after
\* the mutation's clear.
C33_Witness ==
    /\ ServedRaced(res)
    /\ Stale(res)
    /\ res.item # store[res.id]

\* The live rows of st that hold sample item i
CopiesOf(st, i) ==
    {id \in LiveIds(st) : /\ st[id].name = SeedItems[i].name
                          /\ st[id].stock = SeedItems[i].stock
                          /\ st[id].price = SeedItems[i].price}

\* Every sample item is live in st exactly n times, and nothing else is
HoldsCatalogTimes(st, n) ==
    /\ \A i \in SeedTasks : Cardinality(CopiesOf(st, i)) = n
    /\ Cardinality(LiveIds(st)) = n * Len(SeedItems)

\* Both callers' SeedDatabase calls counted no item and have returned
BothPassedTheCheck ==
    \A p \in Procs : seed[p].pc = "done" /\ seed[p].calls = 1 /\ seed[p].count = 0

\* C34: two SeedDatabase calls running concurrently on an empty collection
\* can both pass the emptiness check before either inserts; then both insert
\* the whole catalog and the collection ends with every sample item twice.
C34_ConcurrentSeedsDouble ==
    BothPassedTheCheck =>
        /\ \A p \in Procs : seed[p].ret = "nil"
        /\ HoldsCatalogTimes(store, Cardinality(Procs))

\* C34 witness: on a table that was empty both calls counted no item, both
\* have returned, and the table holds every sample item twice.
C34_Witness ==
    /\ BothPassedTheCheck
    /\ \A p \in Procs : LiveIds(seed[p].start) = {} /\ seed[p].start[1] = NoRow
    /\ HoldsCatalogTimes(store, 2)

\* The caller's second SeedDatabase call has returned; no store call of it
\* failed, while an insert of the first call had failed, so that the first
\* call returned the error
RetriedAfterFailure(call) ==
    /\ call.pc = "done"
    /\ call.calls = 2
    /\ call.sick
    /\ call.failed = {}
    /\ ~call.countFailed

\* C35: a failed seed is retryable: if SeedDatabase returned an error
\* because some insertions failed, a later SeedDatabase call against a
\* healthy store ends with all the catalog items present.
C35_FailedSeedRetryable ==
    RetriedAfterFailure(seed["p1"]) => IsCatalog(store)

\* The fields an update request sets
FieldsSet(req) ==
    {f \in {"name", "stock", "price"} :
        \/ f = "name" /\ req.name # NoName
        \/ f = "stock" /\ req.stock # NoInt
        \/ f = "price" /\ req.price # NoInt}

\* The row carries every change that the request asks for
Carries(row, req) ==
    /\ req.name # NoName => row.name = req.name
    /\ req.stock # NoInt => row.stock = req.stock
    /\ req.price # NoInt => row.price = RoundPrice(req.price)

\* C36: if two UpdateItem calls on the same item set disjoint fields and
\* both have returned success, the stored item carries both changes, under
\* every interleaving of the two calls.
C36_DisjointUpdatesBothKept ==
    \A u1, u2 \in updatedLog :
        (u1.id = u2.id /\ FieldsSet(u1.req) \cap FieldsSet(u2.req) = {}) =>
            Carries(store[u1.id], u1.req) /\ Carries(store[u1.id], u2.req)

\* The identifiers whose DeleteItem call has returned success
DeleteReturned == {id \in SvcIds : modVers[id] \cap delVers \cap done # {}}

\* C37: a successful delete is permanent: once DeleteItem(id) has returned
\* success, no UpdateItem(id), whether it runs concurrently (having fetched
\* the row before the delete) or later, makes the item live again: the
\* fetch of GetItem finds no row and the list does not hold the item.
C37_DeleteIsPermanent ==
    \A id \in DeleteReturned :
        /\ DbFirst(store, id) = NoRow
        /\ id \notin Matching(store, NoFilter)

\* A stats call has returned its map
StatsReturned == res.kind = "stats" /\ res.ok

\* No statement that changed the table was committed between the first and
\* the last query of the stats call that has returned
StatsUndisturbed == res.asof = res.upto

====
